---- MODULE Spec2Model ----
(***************************************************************************)
(* Model of the trade-executor routing and position-lifecycle core:        *)
(*   - EthereumRoutingState (tradeexecutor/ethereum/routing_state.py)      *)
(*   - PositionManager (tradeexecutor/strategy/pandas_trader/              *)
(*     position_manager.py) over the position ledger (State / Portfolio /  *)
(*     TradingPosition / TradeExecution).                                  *)
(***************************************************************************)
EXTENDS Integers, Naturals, Sequences, FiniteSets, TLC

VARIABLES
    \* ---- EthereumRoutingState and the chain it talks to ----
    approved_routes,   \* defaultdict(set): router address -> set of token addresses
    tx_builder,        \* TRUE when a TransactionBuilder (and hot wallet) is configured
    allowance,         \* on-chain ERC-20 allowance of the hot wallet, per (token, router)
    mempool,           \* approval transactions returned to the caller, not broadcast yet
    issued,            \* number of approval operations returned, per (token, router) address pair
    rpc,               \* per in-flight ensure_token_approved call: position in the method
    rarg,              \* per call: <<token_address, router_address>>
    rret,              \* per call: what the last call returned
    rcalls,            \* number of ensure_token_approved calls started
    routing_states,    \* the RoutingState instances alive and the dict objects
                       \* their approved_routes attributes refer to
    \* ---- Portfolio ledger and PositionManager ----
    positions,         \* position_id -> TradingPosition
    open_positions,    \* Portfolio.open_positions (set of position ids)
    closed_positions,  \* Portfolio.closed_positions (set of position ids)
    trades,            \* trade_id -> TradeExecution
    market,            \* pricing collaborator: pair -> mid price during the run
    timestamp,         \* PositionManager.timestamp: the strategy cycle of the run
    strategy           \* what the strategy of the run trades: its pairs, and whether
                       \* it passes stop loss / take profit arguments

routing_vars == <<approved_routes, tx_builder, allowance, mempool, issued, rpc, rarg, rret, rcalls,
                  routing_states>>
ledger_vars == <<positions, open_positions, closed_positions, trades>>
vars == <<approved_routes, tx_builder, allowance, mempool, issued, rpc, rarg, rret, rcalls,
          routing_states, positions, open_positions, closed_positions, trades, market, timestamp, strategy>>

(***************************************************************************)
(* Bounds                                                                  *)
(***************************************************************************)
MaxCalls == 3          \* ensure_token_approved calls per RoutingState
MaxTrades == 2         \* trades created during the run
MaxPositions == 3      \* position records in the ledger
MaxInstances == 2      \* RoutingState instances constructed (one per cycle)

(***************************************************************************)
(* Addresses.  An address string is <<account, spelling>>: the same        *)
(* account can be written in lower case or in checksum (mixed) case; the   *)
(* chain identifies the account whatever the spelling.                     *)
(***************************************************************************)
Tokens == {"usdc", "weth"}
Routers == {"uniswap"}
Spellings == {"lower", "checksum"}
TokenAddresses == Tokens \X Spellings
RouterAddresses == Routers \X Spellings
Callers == {1, 2}

toChecksumAddress(a) == <<a[1], "checksum">>
Account(a) == a[1]

UINT256_MAX == "2**256-1"
APPROVE_GAS == 100000

(***************************************************************************)
(* EthereumRoutingState                                                    *)
(***************************************************************************)

\* Reading d[k] of a defaultdict(set) inserts k with an empty set when missing.
defaultdict_get(d, k) == IF k \in DOMAIN d THEN d ELSE d @@ (k :> {})

is_route_approved(router_address) == router_address \in DOMAIN approved_routes

\* Mutant: the mark is filed with the two addresses swapped.
mark_router_approved_swapped(d, token_address, router_address) ==
    LET d1 == defaultdict_get(defaultdict_get(d, router_address), token_address)
    IN  [d1 EXCEPT ![token_address] = @ \cup {router_address}]

\* Mutant: the in-memory mark is lost.
mark_router_approved_lost(d, token_address, router_address) ==
    defaultdict_get(d, router_address)

mark_router_approved(d, token_address, router_address) ==
    LET d1 == defaultdict_get(d, router_address)
    IN  [d1 EXCEPT ![router_address] = @ \cup {token_address}]

is_approved_on_chain(token_address, router_address) ==
    allowance[<<Account(token_address), Account(router_address)>>] # "0"

\* Mutant: the approval names the token, not the router, as the spender.
approve_tx_wrong_spender(token_address, router_address) ==
    [contract |-> toChecksumAddress(token_address),
     function |-> "approve",
     args     |-> <<token_address, UINT256_MAX>>,
     gas      |-> APPROVE_GAS]

\* The approve() transaction built by tx_builder.create_transaction
approve_tx(token_address, router_address) ==
    [contract |-> toChecksumAddress(token_address),
     function |-> "approve",
     args     |-> <<router_address, UINT256_MAX>>,
     gas      |-> APPROVE_GAS]

\* ensure_token_approved, lines 154-163: cache lookup, in-memory mark, wallet lookup.
\* The call then blocks on the allowance read (ensure_token_approved_read).
\* contract_ok = FALSE: get_deployed_contract (line 158) raises, before the mark.
ensure_token_approved_begin(c, token_address, router_address, contract_ok) ==
    /\ rpc[c] = "idle"
    /\ rcalls < MaxCalls
    /\ rcalls' = rcalls + 1
    /\ rarg' = [rarg EXCEPT ![c] = <<token_address, router_address>>]
    /\ LET looked == defaultdict_get(approved_routes, router_address)
       IN  IF token_address \in looked[router_address]
           THEN \* Already approved for this cycle in previous trade
                /\ approved_routes' = looked
                /\ rret' = [rret EXCEPT ![c] = [kind |-> "cached", txs |-> <<>>]]
                /\ rpc' = rpc
           ELSE IF ~contract_ok
           THEN /\ approved_routes' = looked
                /\ rret' = [rret EXCEPT ![c] = [kind |-> "error", txs |-> <<>>]]
                /\ rpc' = rpc
           ELSE /\ approved_routes' = mark_router_approved(looked, token_address, router_address)
                /\ IF tx_builder
                   THEN /\ rpc' = [rpc EXCEPT ![c] = "allowance"]
                        /\ rret' = [rret EXCEPT ![c] = [kind |-> "running", txs |-> <<>>]]
                   ELSE \* self.tx_builder is None: attribute access raises
                        /\ rpc' = rpc
                        /\ rret' = [rret EXCEPT ![c] = [kind |-> "error", txs |-> <<>>]]
    /\ UNCHANGED <<tx_builder, allowance, mempool, issued>>
    /\ UNCHANGED routing_states
    /\ UNCHANGED <<positions, open_positions, closed_positions, trades, market, timestamp, strategy>>

\* ensure_token_approved, lines 165-177: the allowance read and the approval.
\* rpc_ok = FALSE: the chain read (or the transaction construction) raises.
ensure_token_approved_read(c, rpc_ok) ==
    /\ rpc[c] = "allowance"
    /\ rpc' = [rpc EXCEPT ![c] = "idle"]
    /\ LET token_address == rarg[c][1]
           router_address == rarg[c][2]
           key == <<token_address, router_address>>
       IN  IF ~rpc_ok
           THEN /\ rret' = [rret EXCEPT ![c] = [kind |-> "error", txs |-> <<>>]]
                /\ UNCHANGED <<issued, mempool>>
           ELSE IF is_approved_on_chain(token_address, router_address)
           THEN \* already approved in previous execution cycle
                /\ rret' = [rret EXCEPT ![c] = [kind |-> "onchain", txs |-> <<>>]]
                /\ UNCHANGED <<issued, mempool>>
           ELSE /\ rret' = [rret EXCEPT ![c] =
                               [kind |-> "approve",
                                txs  |-> <<approve_tx(token_address, router_address)>>]]
                /\ issued' = [issued EXCEPT ![key] = @ + 1]
                /\ mempool' = mempool \cup {<<Account(token_address), Account(router_address)>>}
    /\ UNCHANGED <<approved_routes, tx_builder, allowance, rarg, rcalls>>
    /\ UNCHANGED routing_states
    /\ UNCHANGED <<positions, open_positions, closed_positions, trades, market, timestamp, strategy>>

\* The execution layer broadcasts a returned approval: the allowance becomes infinite.
broadcast_approval(k) ==
    /\ k \in mempool
    /\ mempool' = mempool \ {k}
    /\ allowance' = [allowance EXCEPT ![k] = UINT256_MAX]
    /\ UNCHANGED <<approved_routes, tx_builder, issued, rpc, rarg, rret, rcalls>>
    /\ UNCHANGED routing_states
    /\ UNCHANGED <<positions, open_positions, closed_positions, trades, market, timestamp, strategy>>


\* mark_router_approved called on the acting instance.
call_mark_router_approved(token_address, router_address) ==
    /\ \A c \in Callers : rpc[c] = "idle"
    /\ approved_routes' = mark_router_approved(approved_routes, token_address, router_address)
    /\ UNCHANGED <<tx_builder, allowance, mempool, issued, rpc, rarg, rret, rcalls>>
    /\ UNCHANGED routing_states
    /\ UNCHANGED <<positions, open_positions, closed_positions, trades, market, timestamp, strategy>>

(***************************************************************************)
(* RoutingState instances.  An instance holds a reference to a dict object *)
(* in its approved_routes attribute.  routing_states is                    *)
(*   [self |-> the instance the methods are called on,                     *)
(*    refs |-> per instance, the id of the dict object it refers to,       *)
(*    heap |-> per object id, the dict]                                    *)
(* and the variable approved_routes is the dict of the acting instance:    *)
(* heap[refs[self]] is written back when another instance takes over.      *)
(***************************************************************************)
OneRoutingState == [self |-> 1, refs |-> <<1>>, heap |-> << <<>> >>]

\* self.approved_routes of instance k
approved_routes_of(k) ==
    IF routing_states.refs[k] = routing_states.refs[routing_states.self]
    THEN approved_routes
    ELSE routing_states.heap[routing_states.refs[k]]

\* The heap with the dict of the acting instance written back.
stored_heap == [routing_states.heap EXCEPT ![routing_states.refs[routing_states.self]] =
                                               approved_routes]

\* Mutant: the dict is a class attribute, made once and shared by the instances.
new_approved_routes_class_level(rs) == rs.refs[1]

\* __init__, line 93: self.approved_routes = defaultdict(set) makes a new
\* dict object; the result is its id.
new_approved_routes(rs) == Len(rs.heap) + 1

\* EthereumRoutingState.__init__: a cycle constructs its RoutingState, which
\* becomes the acting instance.
new_routing_state ==
    /\ \A c \in Callers : rpc[c] = "idle"
    /\ Len(routing_states.refs) < MaxInstances
    /\ LET o == new_approved_routes(routing_states)
           heap1 == IF o > Len(stored_heap) THEN Append(stored_heap, <<>>) ELSE stored_heap
       IN  /\ routing_states' = [self |-> Len(routing_states.refs) + 1,
                                 refs |-> Append(routing_states.refs, o),
                                 heap |-> heap1]
           /\ approved_routes' = heap1[o]
    /\ UNCHANGED <<tx_builder, allowance, mempool, issued, rpc, rarg, rret, rcalls>>
    /\ UNCHANGED <<positions, open_positions, closed_positions, trades, market, timestamp, strategy>>

\* The caller turns to another instance that is still alive.
use_routing_state(k) ==
    /\ \A c \in Callers : rpc[c] = "idle"
    /\ k \in DOMAIN routing_states.refs
    /\ k # routing_states.self
    /\ routing_states' = [routing_states EXCEPT !.self = k, !.heap = stored_heap]
    /\ approved_routes' = stored_heap[routing_states.refs[k]]
    /\ UNCHANGED <<tx_builder, allowance, mempool, issued, rpc, rarg, rret, rcalls>>
    /\ UNCHANGED <<positions, open_positions, closed_positions, trades, market, timestamp, strategy>>

\* Token amounts on chain are raw integers; a token has a number of decimals.
Decimals == [usdc |-> 1, weth |-> 2]
RawAmounts == {0, 5, 10, 15}

RECURSIVE pow10(_)
pow10(n) == IF n = 0 THEN 1 ELSE 10 * pow10(n - 1)

\* TokenDetails.convert_to_decimals: raw amount / 10^decimals, as
\* <<whole tokens, remaining raw units>>.
convert_to_decimals(token, raw_amount) ==
    <<raw_amount \div pow10(Decimals[token]), raw_amount % pow10(Decimals[token])>>

\* Mutant: a balance equal to the amount is refused too.
check_has_enough_tokens_inclusive(token, amount, balance) ==
    IF balance <= amount
    THEN [kind |-> "OutOfBalance", token |-> token, amount |-> amount, balance |-> balance,
          d_amount |-> convert_to_decimals(token, amount),
          d_balance |-> convert_to_decimals(token, balance)]
    ELSE [kind |-> "enough", token |-> token, amount |-> amount, balance |-> balance]

\* check_has_enough_tokens, lines 129-137, on the balance the chain answers.
check_has_enough_tokens_result(token, amount, balance) ==
    IF balance < amount
    THEN [kind |-> "OutOfBalance", token |-> token, amount |-> amount, balance |-> balance,
          d_amount |-> convert_to_decimals(token, amount),
          d_balance |-> convert_to_decimals(token, balance)]
    ELSE [kind |-> "enough", token |-> token, amount |-> amount, balance |-> balance]

\* EthereumRoutingState.check_has_enough_tokens.  Without a hot wallet the
\* read of self.hot_wallet.address raises.
check_has_enough_tokens(c, token, amount, balance) ==
    /\ rpc[c] = "idle"
    /\ rret' = [rret EXCEPT ![c] =
                   IF tx_builder THEN check_has_enough_tokens_result(token, amount, balance)
                   ELSE [kind |-> "error", txs |-> <<>>]]
    /\ UNCHANGED <<approved_routes, tx_builder, allowance, mempool, issued, rpc, rarg, rcalls>>
    /\ UNCHANGED routing_states
    /\ UNCHANGED <<positions, open_positions, closed_positions, trades, market, timestamp, strategy>>

\* Trading pairs of a route: base and quote asset, and the address of the
\* exchange, which may be missing ("") and may be spelled in either case.
Assets == {"AAVE", "WETH", "USDC"}
ExchangeAddresses == {"", "0xab", "0xAB", "0xcd"}
TradingPairs ==
    {p \in [base : Assets, quote : Assets, exchange_address : ExchangeAddresses] :
        p.base # p.quote}

\* str.lower() on an exchange address
lower(address) == IF address = "0xAB" THEN "0xab" ELSE address

\* The message of an assertion failure: its text and the pairs it formats.
\* A bare assert carries no message.
NoMessage == [text |-> "", pairs |-> <<>>]
Rejected(message) == [kind |-> "AssertionError", message |-> message]

\* Mutant: only the exchanges are compared, as validate_exchange does.
validate_pairs_exchange_only(target_pair, intermediary_pair) ==
    IF lower(intermediary_pair.exchange_address) # lower(target_pair.exchange_address)
    THEN Rejected(NoMessage)
    ELSE [kind |-> "valid", message |-> NoMessage]

\* Mutant: the link is looked for between intermediary quote and target base.
validate_pairs_quote_base(target_pair, intermediary_pair) ==
    IF intermediary_pair.quote # target_pair.base
    THEN Rejected([text |-> "Could not hop from intermediary", pairs |-> <<intermediary_pair, target_pair>>])
    ELSE IF target_pair.exchange_address = ""
    THEN Rejected([text |-> "missing exchange information", pairs |-> <<target_pair>>])
    ELSE IF intermediary_pair.exchange_address = ""
    THEN Rejected([text |-> "missing exchange information", pairs |-> <<intermediary_pair>>])
    ELSE IF lower(intermediary_pair.exchange_address) # lower(target_pair.exchange_address)
    THEN Rejected(NoMessage)
    ELSE [kind |-> "valid", message |-> NoMessage]

\* EthereumRoutingState.validate_pairs, lines 190-196: the four assertions in
\* order, each with what its message names.
validate_pairs_result(target_pair, intermediary_pair) ==
    IF intermediary_pair.base # target_pair.quote
    THEN Rejected([text |-> "Could not hop from intermediary", pairs |-> <<intermediary_pair, target_pair>>])
    ELSE IF target_pair.exchange_address = ""
    THEN Rejected([text |-> "missing exchange information", pairs |-> <<target_pair>>])
    ELSE IF intermediary_pair.exchange_address = ""
    THEN Rejected([text |-> "missing exchange information", pairs |-> <<intermediary_pair>>])
    ELSE IF lower(intermediary_pair.exchange_address) # lower(target_pair.exchange_address)
    THEN Rejected(NoMessage)
    ELSE [kind |-> "valid", message |-> NoMessage]

\* A caller validates a two-hop route; the method is static and touches no state.
validate_pairs(c, target_pair, intermediary_pair) ==
    /\ rpc[c] = "idle"
    /\ rarg' = [rarg EXCEPT ![c] = <<target_pair, intermediary_pair, "validate_pairs">>]
    /\ rret' = [rret EXCEPT ![c] = validate_pairs_result(target_pair, intermediary_pair)]
    /\ UNCHANGED <<approved_routes, tx_builder, allowance, mempool, issued, rpc, rcalls>>
    /\ UNCHANGED routing_states
    /\ UNCHANGED <<positions, open_positions, closed_positions, trades, market, timestamp, strategy>>

\* EthereumRoutingState.validate_exchange, line 201: one assertion, no message.
\* A missing exchange address is None: calling lower() on it raises AttributeError.
validate_exchange_result(target_pair, intermediary_pair) ==
    IF intermediary_pair.exchange_address = "" \/ target_pair.exchange_address = ""
    THEN [kind |-> "AttributeError", message |-> NoMessage]
    ELSE IF lower(intermediary_pair.exchange_address) # lower(target_pair.exchange_address)
    THEN Rejected(NoMessage)
    ELSE [kind |-> "valid", message |-> NoMessage]

validate_exchange(c, target_pair, intermediary_pair) ==
    /\ rpc[c] = "idle"
    /\ rarg' = [rarg EXCEPT ![c] = <<target_pair, intermediary_pair, "validate_exchange">>]
    /\ rret' = [rret EXCEPT ![c] = validate_exchange_result(target_pair, intermediary_pair)]
    /\ UNCHANGED <<approved_routes, tx_builder, allowance, mempool, issued, rpc, rcalls>>
    /\ UNCHANGED routing_states
    /\ UNCHANGED <<positions, open_positions, closed_positions, trades, market, timestamp, strategy>>

\* AssetIdentifier.address: the address of an asset as the pair universe
\* spells it.
address(asset, spelling) == <<asset, spelling>>

\* route_tokens, lines 211-218.  intermediate_pair is optional: <<>> is None,
\* <<p>> is the pair p.
route_tokens_result(trading_pair, intermediate_pair, spelling) ==
    IF intermediate_pair = <<>>
    THEN <<toChecksumAddress(address(trading_pair.base, spelling)),
           toChecksumAddress(address(trading_pair.quote, spelling)),
           <<>>>>
    ELSE <<toChecksumAddress(address(trading_pair.base, spelling)),
           toChecksumAddress(address(intermediate_pair[1].quote, spelling)),
           toChecksumAddress(address(trading_pair.quote, spelling))>>

route_tokens(c, trading_pair, intermediate_pair, spelling) ==
    /\ rpc[c] = "idle"
    /\ rarg' = [rarg EXCEPT ![c] = <<trading_pair, intermediate_pair, spelling, "route_tokens">>]
    /\ rret' = [rret EXCEPT ![c] =
                   [kind |-> "route",
                    tokens |-> route_tokens_result(trading_pair, intermediate_pair, spelling)]]
    /\ UNCHANGED <<approved_routes, tx_builder, allowance, mempool, issued, rpc, rcalls>>
    /\ UNCHANGED routing_states
    /\ UNCHANGED <<positions, open_positions, closed_positions, trades, market, timestamp, strategy>>

\* get_token_for_asset, lines 268-271: the ERC-20 proxy at the checksummed address.
get_token_for_asset(asset, spelling) ==
    [abi |-> "ERC20MockDecimals.json", address |-> toChecksumAddress(address(asset, spelling))]

\* The message of get_base_quote's failure, lines 231-232: the caller's
\* error_msg when given (<<m>>), else the default naming the target pair.
base_quote_error(target_pair, error_msg) ==
    IF error_msg = <<>>
    THEN [text |-> "Cannot route trade through", pairs |-> <<target_pair>>]
    ELSE [text |-> error_msg[1], pairs |-> <<>>]

\* Mutant: the direction is never flipped.
get_base_quote_unflipped(target_pair, reserve_asset, error_msg, spelling) ==
    IF reserve_asset = target_pair.quote \/ reserve_asset = target_pair.base
    THEN [kind |-> "tokens",
          tokens |-> <<get_token_for_asset(target_pair.base, spelling),
                       get_token_for_asset(target_pair.quote, spelling)>>]
    ELSE [kind |-> "RuntimeError", message |-> base_quote_error(target_pair, error_msg)]

\* get_base_quote, lines 231-248
get_base_quote_result(target_pair, reserve_asset, error_msg, spelling) ==
    IF reserve_asset = target_pair.quote
    THEN \* Buy with e.g. BUSD
         [kind |-> "tokens",
          tokens |-> <<get_token_for_asset(target_pair.base, spelling),
                       get_token_for_asset(target_pair.quote, spelling)>>]
    ELSE IF reserve_asset = target_pair.base
    THEN \* Sell, flip the direction
         [kind |-> "tokens",
          tokens |-> <<get_token_for_asset(target_pair.quote, spelling),
                       get_token_for_asset(target_pair.base, spelling)>>]
    ELSE [kind |-> "RuntimeError", message |-> base_quote_error(target_pair, error_msg)]

get_base_quote(c, target_pair, reserve_asset, error_msg, spelling) ==
    /\ rpc[c] = "idle"
    /\ rarg' = [rarg EXCEPT ![c] =
                   <<target_pair, reserve_asset, error_msg, spelling, "get_base_quote">>]
    /\ rret' = [rret EXCEPT ![c] =
                   get_base_quote_result(target_pair, reserve_asset, error_msg, spelling)]
    /\ UNCHANGED <<approved_routes, tx_builder, allowance, mempool, issued, rpc, rcalls>>
    /\ UNCHANGED routing_states
    /\ UNCHANGED <<positions, open_positions, closed_positions, trades, market, timestamp, strategy>>

\* Mutant: on a sell the tokens come back in the order of a buy.
get_base_quote_intermediary_unflipped(target_pair, intermediary_pair, reserve_asset, spelling) ==
    IF reserve_asset = intermediary_pair.quote \/ reserve_asset = target_pair.base
    THEN [kind |-> "tokens",
          tokens |-> <<get_token_for_asset(target_pair.base, spelling),
                       get_token_for_asset(intermediary_pair.quote, spelling),
                       get_token_for_asset(intermediary_pair.base, spelling)>>]
    ELSE [kind |-> "RuntimeError",
          message |-> [text |-> "Cannot trade through",
                       pairs |-> <<target_pair, intermediary_pair>>]]

\* get_base_quote_intermediary, lines 251-265: base, quote and intermediary token.
get_base_quote_intermediary_result(target_pair, intermediary_pair, reserve_asset, spelling) ==
    IF reserve_asset = intermediary_pair.quote
    THEN \* Buy BUSD -> BNB -> Cake
         [kind |-> "tokens",
          tokens |-> <<get_token_for_asset(target_pair.base, spelling),
                       get_token_for_asset(intermediary_pair.quote, spelling),
                       get_token_for_asset(intermediary_pair.base, spelling)>>]
    ELSE IF reserve_asset = target_pair.base
    THEN \* Sell, Cake -> BNB -> BUSD
         [kind |-> "tokens",
          tokens |-> <<get_token_for_asset(intermediary_pair.quote, spelling),
                       get_token_for_asset(target_pair.base, spelling),
                       get_token_for_asset(intermediary_pair.base, spelling)>>]
    ELSE [kind |-> "RuntimeError",
          message |-> [text |-> "Cannot trade through",
                       pairs |-> <<target_pair, intermediary_pair>>]]

get_base_quote_intermediary(c, target_pair, intermediary_pair, reserve_asset, spelling) ==
    /\ rpc[c] = "idle"
    /\ rarg' = [rarg EXCEPT ![c] = <<target_pair, intermediary_pair, reserve_asset, spelling,
                                     "get_base_quote_intermediary">>]
    /\ rret' = [rret EXCEPT ![c] =
                   get_base_quote_intermediary_result(target_pair, intermediary_pair,
                                                      reserve_asset, spelling)]
    /\ UNCHANGED <<approved_routes, tx_builder, allowance, mempool, issued, rpc, rcalls>>
    /\ UNCHANGED routing_states
    /\ UNCHANGED <<positions, open_positions, closed_positions, trades, market, timestamp, strategy>>

(***************************************************************************)
(* Position ledger: State / Portfolio / TradingPosition / TradeExecution   *)
(***************************************************************************)
Pairs == {"WETH-USDC", "AAVE-USDC"}
Mids == {2, 3}                  \* mid prices the market can take, USD per token
QScale == 12                    \* Decimal quantities are counted in 1/QScale token

None == <<>>
Some(x) == <<x>>

\* Python truthiness of an optional number: None and 0 are false.
truthy(o) == o # None /\ o[1] # 0

\* n / d for n >= 0, d > 0, rounded to the nearest representable value.
div_round(n, d) == (2 * n + d) \div (2 * d)

\* USD amount / USD price -> Decimal quantity; the sign follows the amount.
to_quantity(amount, price) ==
    IF amount >= 0 THEN div_round(amount * QScale, price)
                   ELSE 0 - div_round((0 - amount) * QScale, price)

Ledger == [positions |-> positions, open_positions |-> open_positions,
           closed_positions |-> closed_positions, trades |-> trades]

RECURSIVE sum_seq(_)
\* Sum of a sequence of numbers.
sum_seq(s) == IF s = <<>> THEN 0 ELSE Head(s) + sum_seq(Tail(s))

\* TradeExecution.get_position_quantity: executed quantity once executed,
\* planned quantity while planned, nothing for a failed trade.
executed_part(t) == IF t.status = "success" THEN t.executed_quantity ELSE 0
planned_part(t) == IF t.status = "planned" THEN t.planned_quantity ELSE 0
\* Mutant: a failed trade keeps counting with its planned quantity.
live_part_counts_failed(t) ==
    IF t.status = "success" THEN t.executed_quantity ELSE t.planned_quantity

live_part(t) == executed_part(t) + planned_part(t)

\* TradingPosition.get_quantity: what the position holds after the executed trades.
get_quantity(L, pid) ==
    LET ids == L.positions[pid].trades
    IN  sum_seq([i \in 1..Len(ids) |-> executed_part(L.trades[ids[i]])])

\* TradingPosition.get_live_quantity: executed quantity plus the trades
\* planned for this cycle and not executed yet.
get_live_quantity(L, pid) ==
    LET ids == L.positions[pid].trades
    IN  sum_seq([i \in 1..Len(ids) |-> live_part(L.trades[ids[i]])])

\* TradingPosition.is_open
is_open(L, pid) == ~L.positions[pid].closed

\* TradingPosition.is_long: only long positions exist.
is_long(L, pid) == TRUE

\* TradingPosition.get_current_price: the last recorded token price.
get_current_price(L, pid) == L.positions[pid].last_token_price

\* Portfolio.get_position_by_trading_pair: the open position of the pair, or None.
get_position_by_trading_pair(L, pair) ==
    LET S == {p \in L.open_positions : L.positions[p].pair = pair}
    IN  IF S = {} THEN None
        ELSE Some(CHOOSE p \in S : \A q \in S : p <= q)

\* Portfolio.open_new_position
open_new_position(L, pair, assumed_price) ==
    LET pid == Len(L.positions) + 1
    IN  [L EXCEPT !.positions = Append(@, [pair |-> pair, trades |-> <<>>,
                                             last_token_price |-> assumed_price,
                                             stop_loss |-> None, take_profit |-> None,
                                             closed |-> FALSE, closed_at |-> None]),
                  !.open_positions = @ \cup {pid}]

\* TradingPosition.open_trade: a planned trade appended to the position.
open_trade(L, ts, pid, quantity, reserve, assumed_price) ==
    LET tid == Len(L.trades) + 1
        planned_quantity == IF quantity # None THEN quantity[1]
                            ELSE to_quantity(reserve[1], assumed_price)
    IN  [L EXCEPT !.trades = Append(@, [position_id |-> pid,
                                         opened_at |-> ts,
                                         planned_quantity |-> planned_quantity,
                                         planned_reserve |-> reserve,
                                         planned_price |-> assumed_price,
                                         status |-> "planned",
                                         executed_quantity |-> 0]),
                  !.positions[pid].trades = Append(@, tid)]

\* State.create_trade: the trade goes to the open position of the pair,
\* or opens a new position when the pair has none.
create_trade(L, ts, pair, quantity, reserve, assumed_price) ==
    LET existing == get_position_by_trading_pair(L, pair)
        created == existing = None
        L1 == IF created THEN open_new_position(L, pair, assumed_price) ELSE L
        pid == IF created THEN Len(L.positions) + 1 ELSE existing[1]
        L2 == open_trade(L1, ts, pid, quantity, reserve, assumed_price)
    IN  [ledger |-> L2, position |-> pid, trade |-> Len(L2.trades), created |-> created]

(***************************************************************************)
(* Pricing collaborator                                                    *)
(***************************************************************************)
\* What a PositionManager call works with besides the ledger: its timestamp,
\* the mid price of each pair, and the pairs that have a price sample then.
Oracle(samples) == [mid |-> market, samples |-> samples, timestamp |-> timestamp]

\* PricingModel.get_buy_price: None when there is no price sample.
get_buy_price(m, pair, amount) ==
    IF pair \notin m.samples THEN None
    ELSE Some([price |-> m.mid[pair] + 1, mid_price |-> m.mid[pair]])

\* PricingModel.get_sell_price
get_sell_price(m, pair, quantity) ==
    IF pair \notin m.samples THEN None
    ELSE Some([price |-> m.mid[pair] - 1, mid_price |-> m.mid[pair]])


(***************************************************************************)
(* PositionManager.  Each operation is computed as an outcome              *)
(*   [ledger, result, returned, position]                                  *)
(* from the ledger L and the market m it is called on: result is "ok",     *)
(* "None" (close_position with nothing left to close) or the exception the *)
(* call raises; the ledger of the outcome holds whatever the call had      *)
(* written when it returned or raised.                                     *)
(***************************************************************************)
Outcome(L, result, returned, pid) ==
    [ledger |-> L, result |-> result, returned |-> returned, position |-> pid]

\* Percent arguments are in 1/100: 100 is the current mid price.
price_level(mid_price, pct) == mid_price * pct[1]

\* Mutant: the stop loss percentage is ignored.
set_open_levels_take_profit_only(L, pid, mid_price, take_profit_pct, stop_loss_pct) ==
    IF truthy(take_profit_pct)
    THEN [L EXCEPT !.positions[pid].take_profit = Some(price_level(mid_price, take_profit_pct))]
    ELSE L

\* open_1x_long, lines 324-328: the optional take profit and stop loss levels.
set_open_levels(L, pid, mid_price, take_profit_pct, stop_loss_pct) ==
    LET L1 == IF truthy(take_profit_pct)
              THEN [L EXCEPT !.positions[pid].take_profit = Some(price_level(mid_price, take_profit_pct))]
              ELSE L
    IN  IF truthy(stop_loss_pct)
        THEN [L1 EXCEPT !.positions[pid].stop_loss = Some(price_level(mid_price, stop_loss_pct))]
        ELSE L1

\* Mutant: the ledger call always reports a new position.
open_1x_long_trade_reports_created(L, m, pair, value, price) ==
    [create_trade(L, m.timestamp, pair, None, Some(value), price) EXCEPT !.created = TRUE]

\* Mutant: the buy always opens a position of its own.
open_1x_long_trade_own_position(L, m, pair, value, price) ==
    LET pid == Len(L.positions) + 1
        L2 == open_trade(open_new_position(L, pair, price), m.timestamp, pid,
                         None, Some(value), price)
    IN  [ledger |-> L2, position |-> pid, trade |-> Len(L2.trades), created |-> TRUE]

\* open_1x_long, lines 311-312: the quantity and the reserve of the buy.
open_1x_long_arguments(value) == [quantity |-> None, reserve |-> Some(value)]

\* open_1x_long, lines 308-320: the buy is handed to the ledger.
open_1x_long_trade(L, m, pair, value, price) ==
    LET given == open_1x_long_arguments(value)
    IN  create_trade(L, m.timestamp, pair, given.quantity, given.reserve, price)

\* PositionManager.open_1x_long
open_1x_long_outcome(L, m, pair, value, take_profit_pct, stop_loss_pct) ==
    LET quote == get_buy_price(m, pair, value)
    IN  IF quote = None THEN Outcome(L, "CandleSampleUnavailable", <<>>, 0)
        ELSE
        LET price_structure == quote[1]
            r == open_1x_long_trade(L, m, pair, value, price_structure.price)
        IN  IF ~r.created
            THEN \* assert created, after the ledger call
                 Outcome(r.ledger, "AssertionError", <<>>, r.position)
            ELSE Outcome(set_open_levels(r.ledger, r.position, price_structure.mid_price,
                                         take_profit_pct, stop_loss_pct),
                         "ok", <<r.trade>>, r.position)

\* Mutant: the sell is sized with the quote fetched during the call.
sell_quantity_delta_at_quote(L, m, pid, dollar_amount_delta, weight) ==
    LET quote_price == get_buy_price(m, L.positions[pid].pair, dollar_amount_delta)[1].price
    IN  IF weight # 0
        THEN LET quantity_delta == to_quantity(dollar_amount_delta, quote_price)
             IN  IF quantity_delta < 0 THEN Some(quantity_delta) ELSE None
        ELSE Some(0 - get_quantity(L, pid))

\* adjust_position, lines 421-429: the quantity of a sell.
\* None stands for the failed assert quantity_delta < 0.
sell_quantity_delta(L, m, pid, dollar_amount_delta, weight) ==
    LET assumed_price == get_current_price(L, pid)
    IN  IF weight # 0
        THEN LET quantity_delta == to_quantity(dollar_amount_delta, assumed_price)
             IN  IF quantity_delta < 0 THEN Some(quantity_delta) ELSE None
        ELSE \* Sell the whole position, using precise accounting amount
             Some(0 - get_quantity(L, pid))

\* Mutant: a buy always opens a position of its own.
adjust_position_trade_buy_own_position(L, m, pair, dollar_amount_delta, weight, price) ==
    IF dollar_amount_delta > 0
    THEN LET pid == Len(L.positions) + 1
             L2 == open_trade(open_new_position(L, pair, price), m.timestamp, pid,
                              None, Some(dollar_amount_delta), price)
         IN  Some([ledger |-> L2, position |-> pid, trade |-> Len(L2.trades),
                   created |-> TRUE])
    ELSE LET position == get_position_by_trading_pair(L, pair)
         IN  IF position = None THEN None
             ELSE LET quantity_delta == sell_quantity_delta(L, m, position[1], dollar_amount_delta, weight)
                  IN  IF quantity_delta = None THEN None
                      ELSE Some(create_trade(L, m.timestamp, pair, quantity_delta, None,
                                             get_current_price(L, position[1])))

\* Mutant: a sell on a pair without an open position goes to the ledger.
adjust_position_trade_unchecked(L, m, pair, dollar_amount_delta, weight, price) ==
    IF dollar_amount_delta > 0
    THEN Some(create_trade(L, m.timestamp, pair, None, Some(dollar_amount_delta), price))
    ELSE LET position == get_position_by_trading_pair(L, pair)
         IN  IF position = None
             THEN Some(create_trade(L, m.timestamp, pair,
                                    Some(to_quantity(dollar_amount_delta, price)), None, price))
             ELSE LET quantity_delta == sell_quantity_delta(L, m, position[1], dollar_amount_delta, weight)
                  IN  IF quantity_delta = None THEN None
                      ELSE Some(create_trade(L, m.timestamp, pair, quantity_delta, None,
                                             get_current_price(L, position[1])))

\* adjust_position, lines 405-408 and 415-435: the quantity and the reserve
\* of the buy or the sell.  None stands for a failed assert.
adjust_position_arguments(L, m, pair, dollar_amount_delta, weight) ==
    IF dollar_amount_delta > 0
    THEN Some([quantity |-> None, reserve |-> Some(dollar_amount_delta)])
    ELSE LET position == get_position_by_trading_pair(L, pair)
         IN  IF position = None THEN None
             ELSE LET quantity_delta == sell_quantity_delta(L, m, position[1], dollar_amount_delta, weight)
                  IN  IF quantity_delta = None THEN None
                      ELSE Some([quantity |-> quantity_delta, reserve |-> None])

\* adjust_position, lines 402-441: the buy or the sell handed to the ledger.
\* None stands for a failed assert: nothing has been written.
adjust_position_trade(L, m, pair, dollar_amount_delta, weight, price) ==
    LET given == adjust_position_arguments(L, m, pair, dollar_amount_delta, weight)
    IN  IF given = None THEN None
        ELSE IF dollar_amount_delta > 0
        THEN Some(create_trade(L, m.timestamp, pair, given[1].quantity, given[1].reserve, price))
        ELSE LET position == get_position_by_trading_pair(L, pair)
             IN  Some(create_trade(L, m.timestamp, pair, given[1].quantity, given[1].reserve,
                                   get_current_price(L, position[1])))

\* Mutant: a level that is not given is cleared.
set_adjust_levels_clears(L, pid, mid_price, stop_loss, take_profit) ==
    [ledger |-> [L EXCEPT !.positions[pid].stop_loss =
                              IF truthy(stop_loss) THEN Some(price_level(mid_price, stop_loss))
                              ELSE None,
                          !.positions[pid].take_profit =
                              IF truthy(take_profit) THEN Some(price_level(mid_price, take_profit))
                              ELSE None],
     ok |-> (~truthy(stop_loss) \/ stop_loss[1] < 100)
            /\ (~truthy(take_profit) \/ take_profit[1] > 100)]

\* adjust_position, lines 443-451: None stands for a failed assert on the
\* stop loss or the take profit; an earlier assignment stays written.
set_adjust_levels(L, pid, mid_price, stop_loss, take_profit) ==
    LET stop_ok == ~truthy(stop_loss) \/ stop_loss[1] < 100
        take_ok == ~truthy(take_profit) \/ take_profit[1] > 100
        L1 == IF truthy(stop_loss) /\ stop_ok
              THEN [L EXCEPT !.positions[pid].stop_loss = Some(price_level(mid_price, stop_loss))]
              ELSE L
        L2 == IF stop_ok /\ truthy(take_profit) /\ take_ok
              THEN [L1 EXCEPT !.positions[pid].take_profit = Some(price_level(mid_price, take_profit))]
              ELSE L1
    IN  [ledger |-> L2, ok |-> stop_ok /\ take_ok]

\* Mutant: only the weight is checked.
adjust_position_asserts_weight_only(dollar_amount_delta, weight) ==
    weight <= 100 /\ weight >= 0

\* adjust_position, lines 387-389: the three assertions on the arguments.
\* Weights are in 1/100.
adjust_position_asserts(dollar_amount_delta, weight) ==
    dollar_amount_delta # 0 /\ weight <= 100 /\ weight >= 0

\* PositionManager.adjust_position
adjust_position_outcome(L, m, pair, dollar_amount_delta, weight, stop_loss, take_profit) ==
    IF ~adjust_position_asserts(dollar_amount_delta, weight)
    THEN Outcome(L, "AssertionError", <<>>, 0)
    ELSE
    LET quote == get_buy_price(m, pair, dollar_amount_delta)
    IN  IF quote = None THEN Outcome(L, "CandleSampleUnavailable", <<>>, 0)
        ELSE
        LET price_structure == quote[1]
            made == adjust_position_trade(L, m, pair, dollar_amount_delta, weight,
                                          price_structure.price)
        IN  IF made = None THEN Outcome(L, "AssertionError", <<>>, 0)
            ELSE
            LET r == made[1]
                lv == set_adjust_levels(r.ledger, r.position, price_structure.mid_price,
                                        stop_loss, take_profit)
            IN  IF lv.ok THEN Outcome(lv.ledger, "ok", <<r.trade>>, r.position)
                ELSE Outcome(lv.ledger, "AssertionError", <<>>, r.position)

\* Mutant: the pricing model's exception is passed on as it came.
price_unavailable_unwrapped(pair) ==
    [exception |-> "CandleSampleUnavailable", text |-> "", pair |-> None]

\* adjust_position, lines 393-396: the exception raised in place of the
\* pricing model's, with the pair in its message.
price_unavailable(pair) ==
    [exception |-> "CandleSampleUnavailable", text |-> "Could not fetch price for",
     pair |-> Some(pair)]

\* The exception adjust_position raises, None when it returns.
adjust_position_raised(L, m, pair, dollar_amount_delta, weight, stop_loss, take_profit) ==
    LET o == adjust_position_outcome(L, m, pair, dollar_amount_delta, weight,
                                     stop_loss, take_profit)
    IN  IF o.result = "CandleSampleUnavailable" THEN Some(price_unavailable(pair))
        ELSE IF o.result = "AssertionError"
        THEN Some([exception |-> "AssertionError", text |-> "", pair |-> None])
        ELSE None

(***************************************************************************)
(* Number types.  A Python number is followed through the arithmetic as    *)
(*   [type |-> "float" or "Decimal",                                       *)
(*    float_arithmetic |-> TRUE when it is the result of an operation      *)
(*                         carried out in binary floating point]           *)
(* next to its value, which the ledger model carries in 1/QScale.          *)
(***************************************************************************)
NumberTypes == {"float", "Decimal"}

\* A number as the caller or a collaborator hands it over.
Given(type) == [type |-> type, float_arithmetic |-> FALSE]

\* Decimal(x): the exact value of x as a Decimal.
to_Decimal(x) == [type |-> "Decimal", float_arithmetic |-> x.float_arithmetic]

\* a / b: float division for two floats, Decimal division for two Decimals,
\* TypeError for a Decimal and a float.
truediv(a, b) ==
    IF a.type = "float" /\ b.type = "float"
    THEN [type |-> "float", float_arithmetic |-> TRUE]
    ELSE IF a.type = "Decimal" /\ b.type = "Decimal"
    THEN [type |-> "Decimal", float_arithmetic |-> a.float_arithmetic \/ b.float_arithmetic]
    ELSE [type |-> "TypeError", float_arithmetic |-> FALSE]

\* -x
negated(x) == x

\* open_1x_long, lines 301-312: the reserve handed to create_trade.
open_1x_long_reserve(value) ==
    LET converted == IF value.type = "float" THEN to_Decimal(value) ELSE value
    IN  to_Decimal(converted)

\* adjust_position, line 408 (buy) and lines 421-429 (sell): the reserve or
\* the quantity handed to create_trade.  The position's current price is a
\* float (USDollarPrice), its quantity a Decimal.
adjust_position_amount(dollar_amount_delta, is_buy, weight) ==
    IF is_buy THEN to_Decimal(dollar_amount_delta)
    ELSE IF weight # 0 THEN to_Decimal(truediv(dollar_amount_delta, Given("float")))
    ELSE negated(Given("Decimal"))

\* close_position, lines 494-511: minus the live quantity, a Decimal.
close_position_quantity == negated(Given("Decimal"))

\* close_position, lines 511-512: the quantity and the reserve of the sell.
close_position_arguments(quantity) == [quantity |-> Some(0 - quantity), reserve |-> None]

\* close_position, lines 494-521: the closing trade handed to the ledger.
close_position_trade(L, m, pid, quantity, price) ==
    LET given == close_position_arguments(quantity)
    IN  create_trade(L, m.timestamp, L.positions[pid].pair, given.quantity, given.reserve, price)

\* Mutant: closed positions are accepted.
close_position_asserts_long_only(L, pid) == is_long(L, pid)

\* close_position, lines 491-492: the two assertions on the position.
close_position_asserts(L, pid) == is_long(L, pid) /\ is_open(L, pid)

\* Mutant: the planned trades of the cycle are not counted.
quantity_left_executed_only(L, pid) == get_quantity(L, pid)

\* close_position, line 494: what is left to close.
quantity_left_of(L, pid) == get_live_quantity(L, pid)

\* PositionManager.close_position
close_position_outcome(L, m, pid) ==
    IF ~close_position_asserts(L, pid)
    THEN Outcome(L, "AssertionError", <<>>, pid)
    ELSE
    LET quantity_left == quantity_left_of(L, pid)
    IN  IF quantity_left = 0 THEN Outcome(L, "None", <<>>, pid)
        ELSE
        LET quote == get_sell_price(m, L.positions[pid].pair, quantity_left)
        IN  IF quote = None THEN Outcome(L, "CandleSampleUnavailable", <<>>, pid)
            ELSE
            LET r == close_position_trade(L, m, pid, quantity_left, quote[1].price)
            IN  IF r.position # pid
                THEN Outcome(r.ledger, "AssertionError", <<>>, pid)
                ELSE Outcome(r.ledger, "ok", <<r.trade>>, pid)

RECURSIVE close_each(_, _, _, _)
\* close_all, lines 540-543: close_position on each open position in turn;
\* an exception of one call ends the loop with the earlier trades written.
close_each(L, m, pids, acc) ==
    IF pids = <<>> THEN Outcome(L, "ok", acc, 0)
    ELSE LET o == close_position_outcome(L, m, Head(pids))
         IN  IF o.result \in {"ok", "None"}
             THEN close_each(o.ledger, m, Tail(pids), acc \o o.returned)
             ELSE Outcome(o.ledger, o.result, <<>>, Head(pids))

RECURSIVE ascending(_)
\* The ids of a set of positions in the order the open_positions dict holds them.
ascending(S) ==
    IF S = {} THEN <<>>
    ELSE LET lo == CHOOSE p \in S : \A q \in S : p <= q
         IN  <<lo>> \o ascending(S \ {lo})

\* Mutant: with several positions open the first of them is returned.
get_current_position_first_open(L) ==
    IF Cardinality(L.open_positions) = 0
    THEN Outcome(L, "NoSingleOpenPositionException", <<>>, 0)
    ELSE LET pid == Head(ascending(L.open_positions))
         IN  Outcome(L, "ok", <<pid>>, pid)

\* PositionManager.get_current_position
get_current_position(L) ==
    IF Cardinality(L.open_positions) = 0
    THEN Outcome(L, "NoSingleOpenPositionException", <<>>, 0)
    ELSE IF Cardinality(L.open_positions) > 1
    THEN Outcome(L, "NoSingleOpenPositionException", <<>>, 0)
    ELSE LET pid == Head(ascending(L.open_positions))
         IN  Outcome(L, "ok", <<pid>>, pid)

RECURSIVE max_closed_at(_, _, _)
\* Python max(values, key=lambda c: c.closed_at): the first of the values
\* with the largest key.
max_closed_at(L, values, best) ==
    IF values = <<>> THEN best
    ELSE max_closed_at(L, Tail(values),
             IF L.positions[Head(values)].closed_at[1] > L.positions[best].closed_at[1]
             THEN Head(values) ELSE best)

\* Mutant: the oldest entry of the dict is returned.
get_last_closed_position_first_entry(L, values) ==
    IF Len(values) = 0 THEN None ELSE Some(Head(values))

\* PositionManager.get_last_closed_position; values is
\* portfolio.closed_positions.values(), in the order the dict holds them.
get_last_closed_position(L, values) ==
    IF Len(values) = 0 THEN None
    ELSE Some(max_closed_at(L, Tail(values), Head(values)))

\* PositionManager.is_any_open
is_any_open(L) == Cardinality(L.open_positions) > 0

\* PositionManager.close_all
close_all_outcome(L, m) ==
    IF ~is_any_open(L) THEN Outcome(L, "AssertionError", <<>>, 0)
    ELSE close_each(L, m, ascending(L.open_positions), <<>>)


(***************************************************************************)
(* Execution layer and valuation                                           *)
(***************************************************************************)
\* Tokens of the pair's base asset the hot wallet holds on chain.
onchain_balance(L, pair) ==
    sum_seq([i \in 1..Len(L.trades) |->
                IF L.positions[L.trades[i].position_id].pair = pair
                THEN executed_part(L.trades[i]) ELSE 0])

\* Mutant: a closed position is filed as closed and stays among the open ones.
mark_trade_success_keeps_open(L, tid, executed_at, executed_quantity) ==
    LET pid == L.trades[tid].position_id
        L1 == [L EXCEPT !.trades[tid].status = "success",
                        !.trades[tid].executed_quantity = executed_quantity]
    IN  IF is_open(L1, pid) /\ get_quantity(L1, pid) = 0
        THEN [L1 EXCEPT !.positions[pid].closed = TRUE,
                        !.positions[pid].closed_at = Some(executed_at),
                        !.closed_positions = @ \cup {pid}]
        ELSE L1

\* Mutant: every executed sell closes the position.
mark_trade_success_sell_closes(L, tid, executed_at, executed_quantity) ==
    LET pid == L.trades[tid].position_id
        L1 == [L EXCEPT !.trades[tid].status = "success",
                        !.trades[tid].executed_quantity = executed_quantity]
    IN  IF is_open(L1, pid) /\ executed_quantity <= 0
        THEN [L1 EXCEPT !.positions[pid].closed = TRUE,
                        !.positions[pid].closed_at = Some(executed_at),
                        !.open_positions = @ \ {pid},
                        !.closed_positions = @ \cup {pid}]
        ELSE L1

\* State.mark_trade_success: the executed quantity is recorded, and a position
\* left with nothing moves from the open to the closed positions, closed at
\* the time of the execution.
mark_trade_success(L, tid, executed_at, executed_quantity) ==
    LET pid == L.trades[tid].position_id
        L1 == [L EXCEPT !.trades[tid].status = "success",
                        !.trades[tid].executed_quantity = executed_quantity]
    IN  IF is_open(L1, pid) /\ get_quantity(L1, pid) = 0
        THEN [L1 EXCEPT !.positions[pid].closed = TRUE,
                        !.positions[pid].closed_at = Some(executed_at),
                        !.open_positions = @ \ {pid},
                        !.closed_positions = @ \cup {pid}]
        ELSE L1

\* State.mark_trade_failed: the trade stays in the position as failed.
mark_trade_failed(L, tid) == [L EXCEPT !.trades[tid].status = "failed"]

\* State.revalue_positions: every open position takes the current sell price.
revalue_positions_ledger(L, m) ==
    [L EXCEPT !.positions =
        [p \in DOMAIN L.positions |->
            IF p \in L.open_positions
            THEN [L.positions[p] EXCEPT !.last_token_price =
                     get_sell_price(m, L.positions[p].pair, get_quantity(L, p))[1].price]
            ELSE L.positions[p]]]

(***************************************************************************)
(* Inputs                                                                  *)
(***************************************************************************)
Values == {2}                             \* USD value of open_1x_long
NoLevels == <<None, None>>
OpenTakeProfits == {None, Some(150)}
OpenStopLosses == {None, Some(50)}
\* adjust_position: <<dollar_amount_delta, weight in 1/100>>
ValidAdjusts == {<<0 - 1, 0>>, <<0 - 1, 50>>, <<1, 50>>}
InvalidAdjusts == {<<0, 50>>, <<1, 0 - 50>>, <<0 - 1, 150>>}
\* adjust_position: <<stop_loss, take_profit>>
AdjustLevels == {NoLevels, <<Some(50), Some(150)>>,
                 <<Some(100), None>>, <<Some(50), Some(100)>>}
OpenLevels == OpenTakeProfits \X OpenStopLosses
\* Pairs with a price sample at the time of a call.
SampleSets == {Pairs} \cup {Pairs \ {p} : p \in Pairs}
Samples(pair, has_sample) == IF has_sample THEN Pairs ELSE Pairs \ {pair}
Slippages == {0, 1}                       \* quantity a buy loses at execution

(***************************************************************************)
(* Actions                                                                 *)
(***************************************************************************)
created_in_run(L, ts) == {i \in DOMAIN L.trades : L.trades[i].opened_at = ts}

SetLedger(L) ==
    /\ Cardinality(created_in_run(L, timestamp)) <= MaxTrades
    /\ Len(L.positions) <= MaxPositions
    /\ positions' = L.positions
    /\ open_positions' = L.open_positions
    /\ closed_positions' = L.closed_positions
    /\ trades' = L.trades

open_1x_long(pair, value, take_profit_pct, stop_loss_pct, samples) ==
    /\ SetLedger(open_1x_long_outcome(Ledger, Oracle(samples), pair, value,
                                      take_profit_pct, stop_loss_pct).ledger)
    /\ UNCHANGED <<market, timestamp, strategy>>
    /\ UNCHANGED routing_vars

adjust_position(pair, dollar_amount_delta, weight, stop_loss, take_profit, samples) ==
    /\ SetLedger(adjust_position_outcome(Ledger, Oracle(samples), pair, dollar_amount_delta,
                                         weight, stop_loss, take_profit).ledger)
    /\ UNCHANGED <<market, timestamp, strategy>>
    /\ UNCHANGED routing_vars

\* close_position, lines 524-528: the shape of the returned value.
close_position_return(o, trades_as_list) ==
    IF o.result # "ok" THEN o.result
    ELSE IF trades_as_list THEN "list" ELSE "trade"

close_position(pid, trades_as_list, samples) ==
    /\ SetLedger(close_position_outcome(Ledger, Oracle(samples), pid).ledger)
    /\ UNCHANGED <<market, timestamp, strategy>>
    /\ UNCHANGED routing_vars

close_all(samples) ==
    /\ SetLedger(close_all_outcome(Ledger, Oracle(samples)).ledger)
    /\ UNCHANGED <<market, timestamp, strategy>>
    /\ UNCHANGED routing_vars

\* What the chain makes of a planned trade: a buy may receive less than
\* planned, a sell delivers exactly the planned quantity.
executed_quantity_of(t, slippage) ==
    IF t.planned_quantity > 0 THEN t.planned_quantity - slippage ELSE t.planned_quantity

\* The execution layer settles one planned trade, stamped with the time of the
\* cycle.  A sell cannot succeed when the wallet holds fewer tokens than it
\* sells (check_has_enough_tokens).
execute_trade(tid, success, slippage) ==
    /\ trades[tid].status = "planned"
    /\ LET t == trades[tid]
           pair == positions[t.position_id].pair
           executed_quantity == executed_quantity_of(t, slippage)
       IN  /\ t.planned_quantity <= 0 => slippage = 0
           /\ t.planned_quantity > 0 => executed_quantity > 0
           /\ success => onchain_balance(Ledger, pair) + executed_quantity >= 0
           /\ SetLedger(IF success THEN mark_trade_success(Ledger, tid, timestamp, executed_quantity)
                                   ELSE mark_trade_failed(Ledger, tid))
    /\ UNCHANGED <<market, timestamp, strategy>>
    /\ UNCHANGED routing_vars

revalue_positions ==
    /\ SetLedger(revalue_positions_ledger(Ledger, Oracle(Pairs)))
    /\ UNCHANGED <<market, timestamp, strategy>>
    /\ UNCHANGED routing_vars

(***************************************************************************)
(* Specifications                                                          *)
(***************************************************************************)
InitRouting ==
    /\ approved_routes = <<>>
    /\ mempool = {}
    /\ issued = [k \in TokenAddresses \X RouterAddresses |-> 0]
    /\ rpc = [c \in Callers |-> "idle"]
    /\ rarg = [c \in Callers |-> <<>>]
    /\ rret = [c \in Callers |-> [kind |-> "none", txs |-> <<>>]]
    /\ rcalls = 0
    /\ routing_states = OneRoutingState

EmptyLedger == [positions |-> <<>>, open_positions |-> {}, closed_positions |-> {},
                trades |-> <<>>]

\* The ledger a run starts from: empty, or the persisted state of an earlier
\* cycle (timestamp 0) that opened a long on WETH-USDC and had it executed.
PersistedLedgers(mid) ==
    LET opened == open_1x_long_outcome(EmptyLedger,
                      [mid |-> mid, samples |-> Pairs, timestamp |-> 0],
                      "WETH-USDC", 2, None, None).ledger
    IN  {EmptyLedger, mark_trade_success(opened, 1, 0, opened.trades[1].planned_quantity)}

\* The two pairs trade at different prices.
Markets == {m \in [Pairs -> Mids] : m["WETH-USDC"] # m["AAVE-USDC"]}

InitLedger ==
    /\ timestamp = 1
    /\ market \in Markets
    /\ \E L \in PersistedLedgers(market) :
          /\ positions = L.positions
          /\ open_positions = L.open_positions
          /\ closed_positions = L.closed_positions
          /\ trades = L.trades

InitChain ==
    /\ InitRouting
    /\ tx_builder = TRUE
    /\ allowance = [k \in Tokens \X Routers |-> "0"]

\* Position manager and ledger of one run of a strategy that trades one pair
\* and sets no stop loss or take profit.
Init ==
    /\ InitChain
    /\ InitLedger
    /\ strategy = [pairs |-> {"WETH-USDC"}, levels |-> FALSE]

Next ==
    \/ \E pair \in strategy.pairs, value \in Values, has_sample \in BOOLEAN,
          lv \in (IF strategy.levels THEN OpenLevels ELSE {NoLevels}) :
          open_1x_long(pair, value, lv[1], lv[2], Samples(pair, has_sample))
    \/ \E pair \in strategy.pairs, has_sample \in BOOLEAN,
          in \in (ValidAdjusts \X (IF strategy.levels THEN AdjustLevels ELSE {NoLevels}))
                 \cup (InvalidAdjusts \X {NoLevels}) :
          adjust_position(pair, in[1][1], in[1][2], in[2][1], in[2][2],
                          Samples(pair, has_sample))
    \/ \E pid \in DOMAIN positions, as_list \in BOOLEAN, has_sample \in BOOLEAN :
          close_position(pid, as_list, Samples(positions[pid].pair, has_sample))
    \/ \E samples \in SampleSets : close_all(samples)
    \/ \E tid \in DOMAIN trades, success \in BOOLEAN, slippage \in Slippages :
          execute_trade(tid, success, slippage)
    \/ revalue_positions

Spec == Init /\ [][Next]_vars

\* The same for a strategy that sets stop loss and take profit levels.
LevelInit ==
    /\ InitChain
    /\ InitLedger
    /\ market["WETH-USDC"] < market["AAVE-USDC"]
    /\ strategy = [pairs |-> {"WETH-USDC"}, levels |-> TRUE]

LevelSpec == LevelInit /\ [][Next]_vars

\* The same for a strategy that rebalances two pairs, WETH-USDC the cheaper one.
PairsInit ==
    /\ InitChain
    /\ InitLedger
    /\ market["WETH-USDC"] < market["AAVE-USDC"]
    /\ strategy = [pairs |-> Pairs, levels |-> FALSE]

PairsSpec == PairsInit /\ [][Next]_vars

\* A position bought and executed in an earlier cycle.
held(L, m, pair) ==
    LET o == open_1x_long_outcome(L, m, pair, 2, None, None).ledger
        tid == Len(o.trades)
    IN  mark_trade_success(o, tid, m.timestamp, o.trades[tid].planned_quantity)

\* A position closed and its sell executed in an earlier cycle.
sold(L, m, pid) ==
    LET o == close_position_outcome(L, m, pid).ledger
        tid == Len(o.trades)
    IN  mark_trade_success(o, tid, m.timestamp, o.trades[tid].planned_quantity)

\* Persisted states of a portfolio that has held both pairs: both positions
\* still open, or both closed, in different cycles or in the same one.
ClosedLedgers(mid) ==
    LET at(ts) == [mid |-> mid, samples |-> Pairs, timestamp |-> ts]
        both == held(held(EmptyLedger, at(0 - 1), "WETH-USDC"), at(0 - 1), "AAVE-USDC")
    IN  {both,
         sold(sold(both, at(0 - 1), 1), at(0), 2),
         sold(sold(both, at(0 - 1), 2), at(0), 1),
         sold(sold(both, at(0), 1), at(0), 2)}

\* A run that starts from such a state; the strategy now trades one pair.
ClosedInit ==
    /\ InitChain
    /\ timestamp = 1
    /\ market \in Markets
    /\ market["WETH-USDC"] < market["AAVE-USDC"]
    /\ \E L \in ClosedLedgers(market) :
          /\ positions = L.positions
          /\ open_positions = L.open_positions
          /\ closed_positions = L.closed_positions
          /\ trades = L.trades
    /\ strategy = [pairs |-> {"WETH-USDC"}, levels |-> FALSE]

ClosedSpec == ClosedInit /\ [][Next]_vars

\* One RoutingState (one cycle) against the chain.
RoutingInit ==
    /\ InitRouting
    /\ tx_builder \in BOOLEAN
    /\ allowance \in [Tokens \X Routers -> {"0", UINT256_MAX}]
    /\ positions = <<>>
    /\ open_positions = {}
    /\ closed_positions = {}
    /\ trades = <<>>
    /\ market = [p \in Pairs |-> 2]
    /\ timestamp = 1
    /\ strategy = [pairs |-> Pairs, levels |-> FALSE]

RoutingNext ==
    \/ \E c \in Callers, t \in TokenAddresses, r \in RouterAddresses, contract_ok \in BOOLEAN :
          ensure_token_approved_begin(c, t, r, contract_ok)
    \/ \E c \in Callers, rpc_ok \in BOOLEAN : ensure_token_approved_read(c, rpc_ok)
    \/ \E k \in Tokens \X Routers : broadcast_approval(k)

RoutingSpec == RoutingInit /\ [][RoutingNext]_vars


\* Several cycles, each with a RoutingState of its own, against one chain.
CycleTokenAddresses == {<<t, "lower">> : t \in Tokens}
CycleRouterAddresses == {<<r, "lower">> : r \in Routers}

CycleNext ==
    \/ \E c \in Callers, t \in CycleTokenAddresses, r \in CycleRouterAddresses :
          ensure_token_approved_begin(c, t, r, TRUE)
    \/ \E c \in Callers, rpc_ok \in BOOLEAN : ensure_token_approved_read(c, rpc_ok)
    \/ \E k \in Tokens \X Routers : broadcast_approval(k)
    \/ \E t \in CycleTokenAddresses, r \in CycleRouterAddresses :
          call_mark_router_approved(t, r)
    \/ new_routing_state
    \/ \E k \in 1..MaxInstances : use_routing_state(k)

\* Every cycle signs with a hot wallet; the chain may hold earlier allowances.
CycleInit ==
    /\ RoutingInit
    /\ tx_builder = TRUE

CycleSpec == CycleInit /\ [][CycleNext]_vars

\* The balance checks of one RoutingState against the chain.
BalanceNext ==
    \E c \in Callers, token \in Tokens, amount \in RawAmounts, balance \in RawAmounts :
        check_has_enough_tokens(c, token, amount, balance)

BalanceSpec == RoutingInit /\ [][BalanceNext]_vars

\* Route validation: the two-hop routes a strategy universe can hand to the
\* routing model, with AAVE or WETH as the target and any pair as intermediary.
TargetPairs == {p \in TradingPairs : p.base = "AAVE" /\ p.exchange_address # "0xcd"}

\* validate_exchange reads the exchange addresses only: one target asset pair
\* and one intermediary asset pair, on every exchange address.
ExchangeTargets == {p \in TargetPairs : p.quote = "WETH"}
ExchangeIntermediaries == {p \in TradingPairs : p.base = "WETH" /\ p.quote = "USDC"}

RouteNext ==
    \/ \E c \in Callers, target_pair \in TargetPairs, intermediary_pair \in TradingPairs :
          validate_pairs(c, target_pair, intermediary_pair)
    \/ \E c \in Callers, target_pair \in ExchangeTargets,
          intermediary_pair \in ExchangeIntermediaries :
          validate_exchange(c, target_pair, intermediary_pair)

\* Route validation reads no routing state: one RoutingState, nothing approved.
RouteInit ==
    /\ RoutingInit
    /\ tx_builder = TRUE
    /\ allowance = [k \in Tokens \X Routers |-> "0"]

RouteSpec == RouteInit /\ [][RouteNext]_vars

\* Token resolution: route_tokens and get_base_quote read the assets of the
\* pairs only, so the pairs of one exchange suffice.
RoutePairs == {p \in TradingPairs : p.exchange_address = "0xab"}
ErrorMessages == {<<>>, <<"Cannot trade through the intermediary">>}

ResolveNext ==
    \/ \E c \in Callers, trading_pair \in RoutePairs,
          intermediate_pair \in {<<>>} \cup {<<p>> : p \in RoutePairs},
          spelling \in Spellings :
          route_tokens(c, trading_pair, intermediate_pair, spelling)
    \/ \E c \in Callers, target_pair \in RoutePairs, reserve_asset \in Assets,
          error_msg \in ErrorMessages, spelling \in Spellings :
          get_base_quote(c, target_pair, reserve_asset, error_msg, spelling)

ResolveSpec == RouteInit /\ [][ResolveNext]_vars

\* Token resolution of two-hop routes to AAVE, through every pair of the exchange.
IntermediaryNext ==
    \E c \in Callers, target_pair \in {p \in RoutePairs : p.base = "AAVE"},
       intermediary_pair \in RoutePairs, reserve_asset \in Assets, spelling \in Spellings :
       get_base_quote_intermediary(c, target_pair, intermediary_pair, reserve_asset, spelling)

IntermediarySpec == RouteInit /\ [][IntermediaryNext]_vars

(***************************************************************************)
(* Properties                                                              *)
(***************************************************************************)
AllSamples == Oracle(Pairs)
LastTrade(L) == L.trades[Len(L.trades)]
TradesOf(L, pid) == {i \in DOMAIN L.trades : L.trades[i].position_id = pid}
OpenOn(pair) == get_position_by_trading_pair(Ledger, pair)

\* Signed sum of the executed quantities of the successful trades of a position,
\* counted over the trade records of the whole ledger.
executed_sum(L, pid) ==
    sum_seq([i \in 1..Len(L.trades) |->
                IF L.trades[i].position_id = pid THEN executed_part(L.trades[i]) ELSE 0])

\* The same for the planned quantities of the trades that are still planned.
planned_sum(L, pid) ==
    sum_seq([i \in 1..Len(L.trades) |->
                IF L.trades[i].position_id = pid THEN planned_part(L.trades[i]) ELSE 0])

\* C1: on one RoutingState, the ensure_token_approved calls made for the same
\* (token address, router address) return at most one approval operation in
\* total, whether or not the first approval has been broadcast.
C1_AtMostOneApproval ==
    \A k \in TokenAddresses \X RouterAddresses : issued[k] <= 1

\* C1 witness: an approval was returned and is not broadcast (the allowance is
\* still zero), and a later call for the same addresses returned nothing.
C1_Witness ==
    \E k \in TokenAddresses \X RouterAddresses, c \in Callers :
        /\ issued[k] = 1
        /\ <<Account(k[1]), Account(k[2])>> \in mempool
        /\ ~is_approved_on_chain(k[1], k[2])
        /\ rarg[c] = k
        /\ rpc[c] = "idle"
        /\ rret[c].kind = "cached"

\* C2: the portfolio holds at most one open position per trading pair.
C2_OneOpenPositionPerPair ==
    \A pair \in Pairs :
        Cardinality({p \in open_positions : positions[p].pair = pair}) <= 1

\* C2 witness: both pairs have an open position, and a buy on the pair that
\* was already open went to its existing position.
C2_Witness ==
    \E p \in open_positions, r \in open_positions :
        /\ positions[r].pair # positions[p].pair
        /\ Len(positions[p].trades) = 2
        /\ trades[positions[p].trades[2]].planned_reserve # None
        /\ trades[positions[p].trades[2]].opened_at = timestamp

C4_LiveQuantityNonNegative ==
    \A p \in open_positions : get_live_quantity(Ledger, p) >= 0

\* C5: open_1x_long on a pair that already has an open position fails and
\* leaves the ledger as it was: a step made by such a call changes no position
\* and records no trade.
C5_FailedOpenChangesNothing ==
    [][\A pair \in Pairs, value \in Values, lv \in OpenLevels :
          LET o == open_1x_long_outcome(Ledger, AllSamples, pair, value, lv[1], lv[2])
          IN  (OpenOn(pair) # None /\ Ledger' = o.ledger)
                 => (o.result = "AssertionError" /\ UNCHANGED ledger_vars)]_vars

\* C6: close_position on an open position whose live quantity is already zero
\* returns no trade and leaves the ledger unchanged, whatever the pricing
\* model would answer.
C6_CloseIsIdempotent ==
    \A pid \in DOMAIN positions, samples \in SampleSets, as_list \in BOOLEAN :
        (is_open(Ledger, pid) /\ get_live_quantity(Ledger, pid) = 0) =>
            LET o == close_position_outcome(Ledger, Oracle(samples), pid)
            IN  /\ close_position_return(o, as_list) = "None"
                /\ o.returned = <<>>
                /\ o.ledger = Ledger

\* C6 witness: a first close_position has queued the closing sell of a position
\* that still holds tokens, and a second call returns None.
C6_Witness ==
    \E pid \in open_positions :
        /\ get_quantity(Ledger, pid) > 0
        /\ get_live_quantity(Ledger, pid) = 0
        /\ \E i \in TradesOf(Ledger, pid) :
              /\ trades[i].status = "planned"
              /\ trades[i].opened_at = timestamp
              /\ trades[i].planned_quantity = 0 - get_quantity(Ledger, pid)
        /\ close_position_outcome(Ledger, AllSamples, pid).result = "None"

\* C7 as claimed: close_position on a position whose live quantity is zero
\* never raises and returns nothing, also when the position is closed.
C7_Original ==
    \A pid \in DOMAIN positions :
        get_live_quantity(Ledger, pid) = 0 =>
            close_position_outcome(Ledger, AllSamples, pid).result = "None"

\* C7 as amended: on a position whose live quantity is zero, close_position
\* never raises and returns nothing while the position is open; once the
\* position is closed the call fails its is_open assertion, writing nothing.
C7_NoRaiseWhileOpen ==
    \A pid \in DOMAIN positions, samples \in SampleSets :
        get_live_quantity(Ledger, pid) = 0 =>
            LET o == close_position_outcome(Ledger, Oracle(samples), pid)
            IN  /\ pid \in open_positions => o.result = "None"
                /\ pid \in closed_positions =>
                      (o.result = "AssertionError" /\ o.ledger = Ledger)
                /\ pid \in open_positions \cup closed_positions

\* C7 witness: the closing sell of a position has executed, the position is
\* closed with nothing left, and close_position on it raises.
C7_Witness ==
    \E pid \in closed_positions :
        /\ get_live_quantity(Ledger, pid) = 0
        /\ \E i \in TradesOf(Ledger, pid) :
              /\ trades[i].status = "success"
              /\ trades[i].opened_at = timestamp
              /\ trades[i].executed_quantity < 0
        /\ close_position_outcome(Ledger, AllSamples, pid).result = "AssertionError"

\* C8: close_position on an open position with non-zero live quantity q creates
\* exactly one trade, on that position: a sell of planned quantity -q at the
\* sell quote for q, after which the live quantity of the position is zero.
C8_CloseSellsLiveQuantity ==
    [][\A pid \in DOMAIN positions :
          LET q == get_live_quantity(Ledger, pid)
              o == close_position_outcome(Ledger, AllSamples, pid)
          IN  (is_open(Ledger, pid) /\ q # 0 /\ Ledger' = o.ledger) =>
                 /\ o.result = "ok"
                 /\ Len(trades') = Len(trades) + 1
                 /\ LastTrade(Ledger').position_id = pid
                 /\ LastTrade(Ledger').planned_quantity = 0 - q
                 /\ LastTrade(Ledger').planned_quantity < 0
                 /\ LastTrade(Ledger').planned_price
                       = get_sell_price(AllSamples, positions[pid].pair, q)[1].price
                 /\ get_live_quantity(Ledger', pid) = 0]_vars

\* C9: adjust_position with a negative dollar delta and weight 0 creates a sell
\* whose planned quantity is the negative of the live quantity of the position,
\* after which the live quantity is zero, also when earlier sells are planned.
C9_SellAllSellsLiveQuantity ==
    [][\A pair \in Pairs :
          LET o == adjust_position_outcome(Ledger, AllSamples, pair, 0 - 1, 0, None, None)
          IN  (OpenOn(pair) # None /\ o.result = "ok" /\ Ledger' = o.ledger) =>
                 /\ LastTrade(Ledger').planned_quantity
                       = 0 - get_live_quantity(Ledger, OpenOn(pair)[1])
                 /\ get_live_quantity(Ledger', OpenOn(pair)[1]) = 0]_vars

C11_SellWithoutPositionFails ==
    \A pair \in Pairs, in \in ValidAdjusts, lv \in AdjustLevels, samples \in SampleSets :
        (OpenOn(pair) = None /\ in[1] < 0) =>
            LET o == adjust_position_outcome(Ledger, Oracle(samples), pair, in[1], in[2],
                                             lv[1], lv[2])
            IN  /\ o.result = (IF pair \in samples THEN "AssertionError"
                                                    ELSE "CandleSampleUnavailable")
                /\ o.returned = <<>>
                /\ o.ledger = Ledger

\* C11 witness: the position of a pair was closed by an executed sell, so the
\* pair has a ledger history but nothing open, and a sell on it fails.
C11_Witness ==
    \E p \in closed_positions :
        /\ OpenOn(positions[p].pair) = None
        /\ \E i \in TradesOf(Ledger, p) : trades[i].opened_at = timestamp
        /\ adjust_position_outcome(Ledger, AllSamples, positions[p].pair, 0 - 1, 0,
                                   None, None).result = "AssertionError"

\* C12: adjust_position with a positive dollar delta succeeds whatever the
\* position state of the pair: without an open position it opens one position
\* holding the single new buy, with an open position it appends the one buy to
\* that position and creates no second position.
C12_BuyCreatesOrEnlarges ==
    \A pair \in Pairs, dollar_amount_delta \in {1, 2}, weight \in {0, 50, 100} :
        LET o == adjust_position_outcome(Ledger, AllSamples, pair, dollar_amount_delta,
                                         weight, None, None)
            tid == Len(trades) + 1
            buy == LastTrade(o.ledger)
        IN  /\ o.result = "ok"
            /\ o.returned = <<tid>>
            /\ Len(o.ledger.trades) = tid
            /\ buy.planned_reserve = Some(dollar_amount_delta)
            /\ buy.planned_quantity > 0
            /\ buy.position_id = o.position
            /\ IF OpenOn(pair) = None
               THEN /\ o.position = Len(positions) + 1
                    /\ Len(o.ledger.positions) = Len(positions) + 1
                    /\ o.ledger.positions[o.position].pair = pair
                    /\ o.ledger.positions[o.position].trades = <<tid>>
                    /\ o.ledger.open_positions = open_positions \cup {o.position}
               ELSE /\ o.position = OpenOn(pair)[1]
                    /\ Len(o.ledger.positions) = Len(positions)
                    /\ o.ledger.positions[o.position].trades
                          = Append(positions[o.position].trades, tid)
                    /\ o.ledger.open_positions = open_positions

\* C12 witness: a position opened by adjust_position holds a second buy that a
\* later adjust_position appended.
C12_Witness ==
    \E p \in open_positions :
        /\ Len(positions[p].trades) = 2
        /\ \A k \in 1..2 :
              LET t == trades[positions[p].trades[k]]
              IN  t.opened_at = timestamp /\ t.planned_reserve = Some(1)

\* What create_trade promises about its result r for a pair, on the ledger L it
\* was called on.
OpenPositionsOf(L, pair) == {p \in L.open_positions : L.positions[p].pair = pair}

CreateTradeContract(L, pair, r) ==
    LET tid == Len(L.trades) + 1
    IN  /\ Len(r.ledger.trades) = tid
        /\ r.trade = tid
        /\ r.ledger.trades[tid].position_id = r.position
        /\ r.created => /\ OpenPositionsOf(L, pair) = {}
                        /\ r.position \notin DOMAIN L.positions
                        /\ r.ledger.positions[r.position].trades = <<tid>>
        /\ ~r.created => /\ OpenPositionsOf(L, pair) = {r.position}
                         /\ r.ledger.positions[r.position].trades
                               = Append(L.positions[r.position].trades, tid)
        /\ \A p \in DOMAIN L.positions \ {r.position} :
              r.ledger.positions[p] = L.positions[p]
        /\ \A i \in DOMAIN L.trades : r.ledger.trades[i] = L.trades[i]

ReturnedFor(o, p) ==
    {k \in 1..Len(o.returned) : o.ledger.trades[o.returned[k]].position_id = p}

\* C14: close_all fails and changes nothing when no position is open; when it
\* returns, every position that was open at the call has live quantity zero,
\* and the returned list holds exactly one closing sell (of the live quantity)
\* for each position whose live quantity was non-zero and nothing else.
C14_CloseAllClosesEach ==
    \A samples \in SampleSets :
        LET o == close_all_outcome(Ledger, Oracle(samples))
            nonzero == {p \in open_positions : get_live_quantity(Ledger, p) # 0}
        IN  /\ open_positions = {} => (o.result = "AssertionError" /\ o.ledger = Ledger)
            /\ (open_positions # {} /\ o.result = "ok") =>
                  /\ \A p \in open_positions : get_live_quantity(o.ledger, p) = 0
                  /\ Len(o.returned) = Cardinality(nonzero)
                  /\ Len(o.ledger.trades) = Len(trades) + Cardinality(nonzero)
                  /\ \A p \in nonzero :
                        /\ Cardinality(ReturnedFor(o, p)) = 1
                        /\ \A k \in ReturnedFor(o, p) :
                              LET t == o.ledger.trades[o.returned[k]]
                              IN  /\ o.returned[k] > Len(trades)
                                  /\ t.planned_quantity = 0 - get_live_quantity(Ledger, p)
                                  /\ t.planned_quantity < 0

\* The call of caller c that this step begins: its arguments or its result are new.
BeginsCall(c) ==
    /\ rpc[c] = "idle"
    /\ rcalls' = rcalls + 1
    /\ (rarg'[c] # rarg[c] \/ rret'[c] # rret[c] \/ rpc'[c] # rpc[c])

InCache(key) == key[2] \in DOMAIN approved_routes /\ key[1] \in approved_routes[key[2]]

\* C15: a call for a (token, router) in the cache returns nothing without
\* reading the chain; a call for one not in the cache reads the allowance, and
\* returns nothing when it is non-zero and otherwise exactly one operation, an
\* approve of the router for 2^256-1 with a gas budget of 100,000.
C15_ApproveOnlyWhenNeeded ==
    [][\A c \in Callers :
          /\ (BeginsCall(c) /\ InCache(rarg'[c])) =>
                (rret'[c] = [kind |-> "cached", txs |-> <<>>] /\ rpc' = rpc)
          /\ (BeginsCall(c) /\ ~InCache(rarg'[c]) /\ rret'[c].kind # "error") =>
                (rpc'[c] = "allowance" /\ rret'[c].txs = <<>>)
          /\ (rpc[c] = "allowance" /\ rpc'[c] = "idle" /\ rret'[c].kind # "error") =>
                LET token_address == rarg[c][1]
                    router_address == rarg[c][2]
                IN  IF allowance[<<token_address[1], router_address[1]>>] # "0"
                    THEN rret'[c].txs = <<>>
                    ELSE rret'[c].txs =
                            <<[contract |-> <<token_address[1], "checksum">>,
                               function |-> "approve",
                               args     |-> <<router_address, "2**256-1">>,
                               gas      |-> 100000]>>]_vars

\* C15 witness: all three outcomes have happened: one caller was handed an
\* approval, then found the same addresses in the cache, and the other caller
\* found a non-zero allowance on chain for another token.
C15_Witness ==
    \E c \in Callers, d \in Callers :
        /\ rret[c].kind = "cached"
        /\ issued[rarg[c]] = 1
        /\ rret[d].kind = "onchain"
        /\ rpc[d] = "idle"
        /\ InCache(rarg[d])

\* C16: the in-memory mark of a (token, router) is set before its allowance is
\* queried and stays set, so a call for the same (token, router) that begins
\* while an earlier call is still reading the chain returns nothing.
C16_MarkBeforeChainRead ==
    /\ [](\A c \in Callers : rpc[c] = "allowance" => InCache(rarg[c]))
    /\ [][/\ \A k \in TokenAddresses \X RouterAddresses : InCache(k) => InCache(k)'
          /\ \A c \in Callers : \A d \in Callers \ {c} :
                (rpc[c] = "allowance" /\ BeginsCall(d) /\ rarg'[d] = rarg[c]) =>
                    /\ rret'[d] = [kind |-> "cached", txs |-> <<>>]
                    /\ rpc'[d] = "idle"
                    /\ issued' = issued]_vars

\* C16 witness: one call is reading an allowance that is still zero, and a
\* second call for the same addresses has come back from the cache.
C16_Witness ==
    \E c \in Callers : \E d \in Callers \ {c} :
        /\ rpc[c] = "allowance"
        /\ ~is_approved_on_chain(rarg[c][1], rarg[c][2])
        /\ rarg[d] = rarg[c]
        /\ rpc[d] = "idle"
        /\ rret[d].kind = "cached"
        /\ issued[rarg[c]] = 0

\* The (token, router) address pairs recorded in the approval cache.
CacheEntries ==
    {k \in TokenAddresses \X RouterAddresses : InCache(k)}

\* An approval of the router for the token was handed out in this cycle.
GrantMade(k) ==
    \E g \in TokenAddresses \X RouterAddresses :
        /\ Account(g[1]) = Account(k[1])
        /\ Account(g[2]) = Account(k[2])
        /\ issued[g] > 0

\* C17: every (router, token) recorded in the approval cache corresponds to an
\* infinite-allowance grant made in this cycle or to a non-zero allowance on
\* chain.  Stated for the entries no call is still working on: an entry whose
\* call is between its mark and the end of its chain read is not counted.
C17_CacheEntriesAreGranted ==
    \A k \in CacheEntries :
        \/ GrantMade(k)
        \/ is_approved_on_chain(k[1], k[2])
        \/ \E c \in Callers : rpc[c] = "allowance" /\ rarg[c] = k

\* C18: check_has_enough_tokens fails with OutOfBalance exactly when the
\* balance on chain is strictly less than the amount; the failure carries the
\* required and the available amount in decimal units of the token; the call
\* changes no routing state.
C18_OutOfBalance ==
    /\ [](\A c \in Callers :
            rret[c].kind \in {"enough", "OutOfBalance"} =>
                LET r == rret[c]
                    unit == IF r.token = "usdc" THEN 10 ELSE 100
                IN  /\ (r.kind = "OutOfBalance") <=> (r.balance < r.amount)
                    /\ r.kind = "OutOfBalance" =>
                          /\ r.d_amount[1] * unit + r.d_amount[2] = r.amount
                          /\ r.d_balance[1] * unit + r.d_balance[2] = r.balance
                          /\ r.d_amount[2] \in 0..(unit - 1)
                          /\ r.d_balance[2] \in 0..(unit - 1))
    /\ [][\A c \in Callers :
            (rret'[c] # rret[c] /\ tx_builder) =>
                /\ rret'[c].kind \in {"enough", "OutOfBalance"}
                /\ approved_routes' = approved_routes
                /\ <<allowance, mempool, issued>>' = <<allowance, mempool, issued>>]_vars

\* C18 witness: one check passed with a balance equal to the amount, another
\* failed one token short, reporting 1.5 needed and 0.5 available.
C18_Witness ==
    \E c \in Callers, d \in Callers :
        /\ rret[c].kind = "enough"
        /\ rret[c].balance = rret[c].amount
        /\ rret[c].amount > 0
        /\ rret[d].kind = "OutOfBalance"
        /\ rret[d].d_amount = <<1, 5>>
        /\ rret[d].d_balance = <<0, 5>>

\* The route a caller has validated, and what validate_pairs answered.
Validated(c) ==
    /\ rret[c].kind \in {"valid", "AssertionError"}
    /\ rarg[c][3] = "validate_pairs"
TargetOf(c) == rarg[c][1]
IntermediaryOf(c) == rarg[c][2]

\* C19 as stated: a route is accepted only when the intermediary pair's quote
\* asset equals the target pair's base asset when buying (the reserve asset is
\* the intermediary's quote), or, when selling (the reserve asset is the
\* target's base), the same with base and quote exchanged.
C19_Original ==
    \A c \in Callers : \A reserve \in Assets :
        (Validated(c) /\ rret[c].kind = "valid") =>
            /\ (reserve = IntermediaryOf(c).quote) =>
                   IntermediaryOf(c).quote = TargetOf(c).base
            /\ (reserve # IntermediaryOf(c).quote /\ reserve = TargetOf(c).base) =>
                   IntermediaryOf(c).base = TargetOf(c).quote

\* C19 (amended): validate_pairs accepts a route only when the intermediary
\* pair's base asset equals the target pair's quote asset, whatever the
\* direction, and both pairs name the same exchange (compared in lower case).
C19_LinkIsIntermediaryBase ==
    \A c \in Callers :
        (Validated(c) /\ rret[c].kind = "valid") =>
            /\ IntermediaryOf(c).base = TargetOf(c).quote
            /\ TargetOf(c).exchange_address # ""
            /\ IntermediaryOf(c).exchange_address # ""
            /\ lower(IntermediaryOf(c).exchange_address) = lower(TargetOf(c).exchange_address)

\* An accepted route whose intermediary quote is not the target base, with the
\* exchange spelled in two different cases.
C19_Witness ==
    \E c \in Callers :
        /\ Validated(c) /\ rret[c].kind = "valid"
        /\ IntermediaryOf(c).quote # TargetOf(c).base
        /\ IntermediaryOf(c).exchange_address # TargetOf(c).exchange_address

\* C20: every two-hop route whose intermediary base asset differs from the
\* target's quote asset is rejected with an assertion failure whose message
\* names the intermediary pair and the target pair.
C20_RejectsBrokenHop ==
    \A c \in Callers :
        (Validated(c) /\ IntermediaryOf(c).base # TargetOf(c).quote) =>
            /\ rret[c].kind = "AssertionError"
            /\ rret[c].message =
                  [text |-> "Could not hop from intermediary",
                   pairs |-> <<IntermediaryOf(c), TargetOf(c)>>]

\* A rejected route in which the intermediary quote does equal the target base
\* and the exchanges agree: only the base-to-quote link is broken.
C20_Witness ==
    \E c \in Callers :
        /\ Validated(c) /\ rret[c].kind = "AssertionError"
        /\ IntermediaryOf(c).base # TargetOf(c).quote
        /\ IntermediaryOf(c).quote = TargetOf(c).base
        /\ IntermediaryOf(c).exchange_address = TargetOf(c).exchange_address
        /\ TargetOf(c).exchange_address # ""

\* The route a caller has handed to validate_pairs or validate_exchange.
ExchangeChecked(c) == rret[c].kind \in {"valid", "AssertionError", "AttributeError"}
OnDifferentExchanges(c) ==
    /\ TargetOf(c).exchange_address # ""
    /\ IntermediaryOf(c).exchange_address # ""
    /\ lower(IntermediaryOf(c).exchange_address) # lower(TargetOf(c).exchange_address)

\* C21: validate_pairs and validate_exchange accept a route only if the two
\* exchange addresses are equal ignoring case, validate_exchange accepts
\* addresses that differ only in case, and a route across two different
\* exchanges fails with an error whose message names a pair of the route.
C21_SameExchangeOrDescriptiveError ==
    \A c \in Callers :
        ExchangeChecked(c) =>
            /\ (rret[c].kind = "valid") =>
                   lower(IntermediaryOf(c).exchange_address) = lower(TargetOf(c).exchange_address)
            /\ (/\ rarg[c][3] = "validate_exchange"
                /\ TargetOf(c).exchange_address # ""
                /\ lower(IntermediaryOf(c).exchange_address) = lower(TargetOf(c).exchange_address))
                   => rret[c].kind = "valid"
            /\ OnDifferentExchanges(c) =>
                   /\ rret[c].kind = "AssertionError"
                   /\ \E i \in 1..Len(rret[c].message.pairs) :
                          rret[c].message.pairs[i] \in {TargetOf(c), IntermediaryOf(c)}

\* C21 without the message: acceptance only on the same exchange ignoring
\* case, and an assertion failure for every route across two exchanges.
C21_SameExchange ==
    \A c \in Callers :
        ExchangeChecked(c) =>
            /\ (rret[c].kind = "valid") =>
                   lower(IntermediaryOf(c).exchange_address) = lower(TargetOf(c).exchange_address)
            /\ OnDifferentExchanges(c) => rret[c].kind = "AssertionError"

\* What a caller handed to route_tokens.
RouteResolved(c) == rret[c].kind = "route"
ChecksumOf(asset) == <<asset, "checksum">>

\* C22: route_tokens yields (target.base, target.quote, none) for a direct
\* route, and (target.base, intermediary.quote, intermediary.base) for every
\* target pair and intermediary pair passed to it.
C22_RouteTokens ==
    \A c \in Callers :
        RouteResolved(c) =>
            IF rarg[c][2] = <<>>
            THEN rret[c].tokens =
                    <<ChecksumOf(rarg[c][1].base), ChecksumOf(rarg[c][1].quote), <<>>>>
            ELSE rret[c].tokens =
                    <<ChecksumOf(rarg[c][1].base), ChecksumOf(rarg[c][2][1].quote),
                      ChecksumOf(rarg[c][2][1].base)>>

\* What a caller handed to get_base_quote.
BaseQuoteAsked(c) == rret[c].kind \in {"tokens", "RuntimeError"}
TokenAt(asset) == [abi |-> "ERC20MockDecimals.json", address |-> ChecksumOf(asset)]

\* C23: get_base_quote returns (pair base, pair quote) when the reserve asset
\* is the pair's quote asset, (pair quote, pair base) when it is the pair's
\* base asset, and fails with a RuntimeError for every other reserve asset.
C23_BaseQuote ==
    \A c \in Callers :
        BaseQuoteAsked(c) =>
            LET target_pair == rarg[c][1]
                reserve_asset == rarg[c][2]
            IN  /\ (reserve_asset = target_pair.quote) =>
                       /\ rret[c].kind = "tokens"
                       /\ rret[c].tokens = <<TokenAt(target_pair.base), TokenAt(target_pair.quote)>>
                /\ (reserve_asset = target_pair.base) =>
                       /\ rret[c].kind = "tokens"
                       /\ rret[c].tokens = <<TokenAt(target_pair.quote), TokenAt(target_pair.base)>>
                /\ (reserve_asset \notin {target_pair.base, target_pair.quote}) =>
                       /\ rret[c].kind = "RuntimeError"
                       /\ rret[c].message # NoMessage

\* One caller got the flipped tokens of a sell while the other was refused a
\* reserve asset that the pair does not trade.
C23_Witness ==
    \E c \in Callers : \E d \in Callers \ {c} :
        /\ BaseQuoteAsked(c) /\ rret[c].kind = "tokens"
        /\ rarg[c][2] = rarg[c][1].base
        /\ rarg[c][4] = "lower"
        /\ BaseQuoteAsked(d) /\ rret[d].kind = "RuntimeError"

\* C24: open_1x_long on a pair with no open position creates a new position
\* holding exactly one buy sized by the dollar value, and sets the take profit
\* and the stop loss of the position to the mid price of the buy quote times
\* the percentage, for each percentage that is given.
C24_OpenSetsLevels ==
    \A pair \in Pairs, value \in {1, 3},
       take_profit_pct \in {None, Some(120)}, stop_loss_pct \in {None, Some(90)} :
        (OpenOn(pair) = None) =>
            LET o == open_1x_long_outcome(Ledger, AllSamples, pair, value,
                                          take_profit_pct, stop_loss_pct)
                pid == Len(positions) + 1
                tid == Len(trades) + 1
                buy == LastTrade(o.ledger)
                opened == o.ledger.positions[pid]
            IN  /\ o.result = "ok"
                /\ o.returned = <<tid>>
                /\ Len(o.ledger.positions) = pid
                /\ Len(o.ledger.trades) = tid
                /\ o.ledger.open_positions = open_positions \cup {pid}
                /\ opened.pair = pair
                /\ opened.trades = <<tid>>
                /\ buy.planned_reserve = Some(value)
                /\ buy.planned_quantity = to_quantity(value, market[pair] + 1)
                /\ buy.planned_quantity > 0
                /\ opened.take_profit =
                      (IF take_profit_pct = None THEN None
                       ELSE Some(market[pair] * take_profit_pct[1]))
                /\ opened.stop_loss =
                      (IF stop_loss_pct = None THEN None
                       ELSE Some(market[pair] * stop_loss_pct[1]))

\* C24 witness: a position opened in this run holds its single buy and both
\* levels, each the mid price times its percentage.
C24_Witness ==
    \E p \in open_positions :
        /\ Len(positions[p].trades) = 1
        /\ trades[positions[p].trades[1]].opened_at = timestamp
        /\ trades[positions[p].trades[1]].planned_reserve = Some(2)
        /\ positions[p].take_profit = Some(market[positions[p].pair] * 150)
        /\ positions[p].stop_loss = Some(market[positions[p].pair] * 50)

\* The failed trades of the ledger, and whether a trade is listed in its position.
FailedTrades == {i \in DOMAIN trades : trades[i].status = "failed"}
Recorded(i) ==
    /\ trades[i].position_id \in DOMAIN positions
    /\ \E k \in DOMAIN positions[trades[i].position_id].trades :
          positions[trades[i].position_id].trades[k] = i

\* Sum of the quantities of the trades of a position that have not failed:
\* what executed for a successful trade, what is planned for a planned one.
not_failed_sum(L, pid) ==
    sum_seq([i \in 1..Len(L.trades) |->
                IF L.trades[i].position_id # pid \/ L.trades[i].status = "failed" THEN 0
                ELSE IF L.trades[i].status = "success" THEN L.trades[i].executed_quantity
                ELSE L.trades[i].planned_quantity])

C26_OpenOrClosed ==
    /\ open_positions \cap closed_positions = {}
    /\ open_positions \cup closed_positions = DOMAIN positions
    /\ \A p \in DOMAIN positions : (p \in open_positions) <=> is_open(Ledger, p)

\* C26 witness: a position closed in this run by an executed sell sits in the
\* closed set while a later position of the same pair is open.
C26_Witness ==
    \E p \in closed_positions, q \in open_positions :
        /\ positions[p].pair = positions[q].pair
        /\ p < q
        /\ \E i \in TradesOf(Ledger, p) :
              /\ trades[i].opened_at = timestamp
              /\ trades[i].status = "success"
              /\ trades[i].executed_quantity < 0

\* The RoutingState instances alive.
Instances == DOMAIN routing_states.refs

\* C27: a newly constructed RoutingState starts with an empty approval cache,
\* and no step (a construction, ensure_token_approved or mark_router_approved
\* on the acting instance) changes the approval cache of another instance.
C27_NoLeakBetweenInstances ==
    [][/\ \A k \in Instances' \ Instances : approved_routes_of(k)' = <<>>
       /\ \A k \in Instances :
              (k # routing_states.self \/ routing_states'.self # routing_states.self)
                 => approved_routes_of(k)' = approved_routes_of(k)]_vars

\* C27 witness: the first instance holds the approval of usdc in its cache,
\* the second one, constructed later and acting, that of weth only.
C27_Witness ==
    /\ Instances = {1, 2}
    /\ routing_states.self = 2
    /\ approved_routes_of(1) = (<<"uniswap", "lower">> :> {<<"usdc", "lower">>})
    /\ approved_routes_of(2) = (<<"uniswap", "lower">> :> {<<"weth", "lower">>})
    /\ issued[<<<<"weth", "lower">>, <<"uniswap", "lower">>>>] = 1

\* adjust_position arguments that break an assertion of lines 387-389.
BadAdjusts == InvalidAdjusts \cup {<<0, 0>>, <<0, 100>>, <<0 - 1, 101>>, <<1, 0 - 1>>}

\* C28: adjust_position with a weight below 0 or above 1, or with a dollar
\* delta of 0, fails its assertion whether or not a price is available, returns
\* nothing and leaves the portfolio exactly as it was.
C28_BadArgumentsAbortFirst ==
    \A pair \in Pairs, in \in BadAdjusts, samples \in SampleSets,
       lv \in {NoLevels, <<Some(50), Some(150)>>} :
        LET o == adjust_position_outcome(Ledger, Oracle(samples), pair, in[1], in[2],
                                         lv[1], lv[2])
        IN  /\ o.result = "AssertionError"
            /\ o.returned = <<>>
            /\ o.ledger = Ledger

\* C28 witness: a position that was adjusted in this run is open, no price
\* sample is at hand for its pair, and a call with a zero delta and one with a
\* weight above 1 both fail their assertion on it.
C28_Witness ==
    \E p \in open_positions :
        /\ Len(positions[p].trades) >= 2
        /\ \E i \in TradesOf(Ledger, p) : trades[i].opened_at = timestamp
        /\ adjust_position_outcome(Ledger, Oracle(Pairs \ {positions[p].pair}),
                                   positions[p].pair, 0, 0, None, None).result
              = "AssertionError"
        /\ adjust_position_outcome(Ledger, Oracle(Pairs \ {positions[p].pair}),
                                   positions[p].pair, 0 - 1, 150, None, None).result
              = "AssertionError"

\* Stop loss and take profit arguments (in 1/100) that adjust_position refuses:
\* a stop loss of 1 or more, a take profit of 1 or less.
BadLevels == {<<Some(100), None>>, <<Some(150), None>>, <<None, Some(100)>>,
              <<None, Some(50)>>, <<Some(50), Some(100)>>}

\* C29: adjust_position called with a stop loss of 1 or more, or a take profit
\* of 1 or less, fails and leaves no partial mutation: no trade is recorded and
\* no position is created or changed by the failed call.
C29_BadLevelsLeaveNoTrace ==
    \A pair \in Pairs, in \in ValidAdjusts, lv \in BadLevels :
        LET o == adjust_position_outcome(Ledger, AllSamples, pair, in[1], in[2],
                                         lv[1], lv[2])
        IN  /\ o.result = "AssertionError"
            /\ o.returned = <<>>
            /\ o.ledger = Ledger

\* C30: when there is no price sample for the pair, adjust_position with
\* arguments that pass its assertions fails with CandleSampleUnavailable, not
\* with an assertion failure, the message names the pair, and nothing is
\* recorded in the ledger.
C30_NoPriceNoTrade ==
    \A pair \in Pairs, in \in ValidAdjusts \cup {<<2, 100>>},
       lv \in {NoLevels, <<Some(100), None>>}, samples \in SampleSets :
        (pair \notin samples) =>
            LET o == adjust_position_outcome(Ledger, Oracle(samples), pair, in[1], in[2],
                                             lv[1], lv[2])
                e == adjust_position_raised(Ledger, Oracle(samples), pair, in[1], in[2],
                                            lv[1], lv[2])
            IN  /\ o.result = "CandleSampleUnavailable"
                /\ e # None
                /\ e[1].exception = "CandleSampleUnavailable"
                /\ e[1].pair = Some(pair)
                /\ o.returned = <<>>
                /\ o.ledger = Ledger

\* C30 witness: the position of a pair was closed in this run; a sell on the
\* pair fails its precondition when the price is there, and fails with
\* CandleSampleUnavailable naming the pair when it is not.
C30_Witness ==
    \E p \in closed_positions :
        LET pair == positions[p].pair
        IN  /\ OpenOn(pair) = None
            /\ \E i \in TradesOf(Ledger, p) : trades[i].opened_at = timestamp
            /\ adjust_position_raised(Ledger, AllSamples, pair, 0 - 1, 50, None, None)[1].exception
                  = "AssertionError"
            /\ adjust_position_raised(Ledger, Oracle(Pairs \ {pair}), pair, 0 - 1, 50,
                                      None, None)
                  = Some(price_unavailable(pair))

\* A number carried as a fixed-point decimal all the way.
FixedPoint(x) == x.type = "Decimal" /\ ~x.float_arithmetic

\* C31: every quantity and reserve that open_1x_long, adjust_position and
\* close_position hand to the ledger in a call that succeeds is a Decimal that
\* no binary floating point operation has produced, whether the caller gives
\* the dollar amount as a float or as a Decimal.
C31_FixedPointAmounts ==
    \A pair \in Pairs, type \in NumberTypes :
        /\ \A value \in Values :
              (open_1x_long_outcome(Ledger, AllSamples, pair, value, None, None).result = "ok")
                 => FixedPoint(open_1x_long_reserve(Given(type)))
        /\ \A in \in ValidAdjusts :
              (/\ adjust_position_outcome(Ledger, AllSamples, pair, in[1], in[2], None, None).result
                     = "ok"
               /\ adjust_position_amount(Given(type), in[1] > 0, in[2]).type # "TypeError")
                 => FixedPoint(adjust_position_amount(Given(type), in[1] > 0, in[2]))
        /\ \A p \in open_positions :
              (close_position_outcome(Ledger, AllSamples, p).result = "ok")
                 => FixedPoint(close_position_quantity)

\* C32: close_position returns a list of trades whenever trades_as_list is
\* true, also when there is nothing left to close; a single trade or None is
\* returned only when trades_as_list is false.
C32_ListWheneverAsked ==
    \A pid \in open_positions, samples \in SampleSets, as_list \in BOOLEAN :
        LET o == close_position_outcome(Ledger, Oracle(samples), pid)
        IN  o.result \in {"ok", "None"} =>
                /\ as_list => close_position_return(o, as_list) = "list"
                /\ close_position_return(o, as_list) \in {"trade", "None"} => ~as_list

\* The orders in which the closed_positions dict can hold a set of positions.
DictOrders(S) ==
    {v \in [1..Cardinality(S) -> S] : \A i, j \in 1..Cardinality(S) : v[i] = v[j] => i = j}

ClosedAt(p) == positions[p].closed_at[1]

C34_SingleOpenPosition ==
    LET o == get_current_position(Ledger)
    IN  /\ o.ledger = Ledger
        /\ o.result \in {"ok", "NoSingleOpenPositionException"}
        /\ o.result = "ok" <=> Cardinality(open_positions) = 1
        /\ o.result = "ok" => (o.returned # <<>> /\ open_positions = {o.returned[1]})
        /\ o.result # "ok" => o.returned = <<>>

\* C34 witness: of the two positions open at the start of the cycle one was
\* closed in this cycle, and the call returns the other.
C34_Witness ==
    \E p \in closed_positions, q \in open_positions :
        /\ ClosedAt(p) = timestamp
        /\ get_current_position(Ledger).result = "ok"
        /\ get_current_position(Ledger).returned = <<q>>

IntermediaryAsked(c) ==
    rarg[c] # <<>> /\ rarg[c][Len(rarg[c])] = "get_base_quote_intermediary"

\* C35: get_base_quote_intermediary fails with a RuntimeError unless the
\* reserve asset is the intermediary pair's quote asset or the target pair's
\* base asset, the two ends of the route.  It answers with the tokens of a buy
\* (target base, intermediary quote) only for the first and with the tokens of
\* a sell (intermediary quote, target base) only for the second, and the
\* intermediary token is the intermediary pair's base asset in both.
C35_BaseQuoteIntermediary ==
    \A c \in Callers :
        IntermediaryAsked(c) =>
            LET target_pair == rarg[c][1]
                intermediary_pair == rarg[c][2]
                reserve_asset == rarg[c][3]
                buy == <<TokenAt(target_pair.base), TokenAt(intermediary_pair.quote),
                         TokenAt(intermediary_pair.base)>>
                sell == <<TokenAt(intermediary_pair.quote), TokenAt(target_pair.base),
                          TokenAt(intermediary_pair.base)>>
            IN  /\ rret[c].kind \in {"tokens", "RuntimeError"}
                /\ rret[c].kind = "RuntimeError"
                      <=> reserve_asset \notin {intermediary_pair.quote, target_pair.base}
                /\ rret[c].kind = "tokens" =>
                      /\ rret[c].tokens \in {buy, sell}
                      /\ rret[c].tokens = buy => reserve_asset = intermediary_pair.quote
                      /\ rret[c].tokens = sell => reserve_asset = target_pair.base
                      /\ reserve_asset = intermediary_pair.quote => rret[c].tokens = buy
                      /\ rret[c].tokens[3] = TokenAt(intermediary_pair.base)

\* C35 witness: on the route USDC -> WETH -> AAVE one caller got the tokens
\* of the sell and the other was refused the intermediary asset as reserve.
C35_Witness ==
    \E c \in Callers : \E d \in Callers \ {c} :
        /\ IntermediaryAsked(c) /\ IntermediaryAsked(d)
        /\ rarg[c][1].quote = "WETH" /\ rarg[c][2].base = "WETH" /\ rarg[c][2].quote = "USDC"
        /\ rarg[c][3] = "AAVE"
        /\ rret[c].kind = "tokens"
        /\ rret[c].tokens[1] = TokenAt("USDC") /\ rret[c].tokens[2] = TokenAt("AAVE")
        /\ rarg[d][1] = rarg[c][1] /\ rarg[d][2] = rarg[c][2]
        /\ rarg[d][3] = "WETH"
        /\ rret[d].kind = "RuntimeError"

\* C36: is_route_approved(router) is true exactly when at least one token has
\* been marked approved for that router on this RoutingState; it is false
\* after an ensure_token_approved call for the router that failed before it
\* marked anything.
C36_RouteApprovedIffTokenMarked ==
    \A router_address \in RouterAddresses :
        /\ is_route_approved(router_address)
              <=> \E token_address \in TokenAddresses : InCache(<<token_address, router_address>>)
        /\ \A c \in Callers :
              (/\ rarg[c] # <<>>
               /\ rarg[c][2] = router_address
               /\ rret[c].kind = "error"
               /\ \A token_address \in TokenAddresses : ~InCache(<<token_address, router_address>>))
                 => ~is_route_approved(router_address)

\* Approval operations returned so far for a token and a router, counted over
\* every spelling of their addresses.
issued_for(token, router) ==
    LET keys == {k \in TokenAddresses \X RouterAddresses :
                    Account(k[1]) = token /\ Account(k[2]) = router}
        RECURSIVE total(_)
        total(S) == IF S = {} THEN 0
                    ELSE LET k == CHOOSE k \in S : TRUE
                         IN  issued[k] + total(S \ {k})
    IN  total(keys)

\* C37: within one cycle the ensure_token_approved calls that name the same
\* token and the same router, in whatever letter case the addresses are
\* written, return at most one approval operation together.
C37_OneApprovalWhateverTheCase ==
    \A token \in Tokens, router \in Routers : issued_for(token, router) <= 1

\* C38: a failed ensure_token_approved leaves the approval cache as it was
\* before the call: a call that fails at once changes nothing in the cache,
\* and when the allowance read or the construction of the approval fails, the
\* (token, router) of the call is not in the cache afterwards, so that a later
\* call for it checks the chain again.
C38_FailureLeavesCacheAlone ==
    [][\A c \in Callers :
          /\ (BeginsCall(c) /\ rret'[c].kind = "error") => approved_routes' = approved_routes
          /\ (rpc[c] = "allowance" /\ rpc'[c] = "idle" /\ rret'[c].kind = "error")
                => ~InCache(rarg[c])']_vars

\* A buy: a strictly positive reserve and no quantity.
SuppliesBuy(given) ==
    given.quantity = None /\ given.reserve # None /\ given.reserve[1] > 0

\* A sell: a strictly negative quantity and no reserve.
SuppliesSell(given) ==
    given.reserve = None /\ given.quantity # None /\ given.quantity[1] < 0

\* C39: whenever open_1x_long, adjust_position, close_position or close_all
\* does not fail, each create_trade call it made was given exactly one of
\* quantity and reserve: a strictly positive reserve and no quantity for a
\* buy, a strictly negative quantity and no reserve for a sell.
C39_QuantityOrReserve ==
    /\ \A pair \in Pairs, value \in Values :
          open_1x_long_outcome(Ledger, AllSamples, pair, value, None, None).result = "ok"
             => SuppliesBuy(open_1x_long_arguments(value))
    /\ \A pair \in Pairs, in \in ValidAdjusts :
          adjust_position_outcome(Ledger, AllSamples, pair, in[1], in[2], None, None).result = "ok"
             => LET given == adjust_position_arguments(Ledger, AllSamples, pair, in[1], in[2])[1]
                IN  IF in[1] > 0 THEN SuppliesBuy(given) ELSE SuppliesSell(given)
    /\ \A pid \in open_positions :
          close_position_outcome(Ledger, AllSamples, pid).result = "ok"
             => SuppliesSell(close_position_arguments(quantity_left_of(Ledger, pid)))
    /\ LET o == close_all_outcome(Ledger, AllSamples)
       IN  o.result = "ok" =>
              \A k \in 1..Len(o.returned) :
                  LET t == o.ledger.trades[o.returned[k]]
                  IN  SuppliesSell([quantity |-> Some(t.planned_quantity),
                                    reserve |-> t.planned_reserve])

\* Levels (in 1/100 of the mid price) that adjust_position accepts, one given
\* and the other left out; they differ from the levels an earlier call has set.
NewLevels == {<<Some(90), None>>, <<None, Some(120)>>}

\* The level a position has, None when the position does not exist yet.
StopLossOf(L, p) == IF p \in DOMAIN L.positions THEN L.positions[p].stop_loss ELSE None
TakeProfitOf(L, p) == IF p \in DOMAIN L.positions THEN L.positions[p].take_profit ELSE None

\* C40: adjust_position called without a stop loss leaves the stop loss of
\* every position as it was, and likewise for the take profit; when the call
\* returns and a valid level was given, that level of the position is the mid
\* price of the quote of this call times the argument, whatever it was before.
C40_LevelsKeptOrReset ==
    \A pair \in strategy.pairs, in \in ValidAdjusts, lv \in NewLevels :
        LET o == adjust_position_outcome(Ledger, AllSamples, pair, in[1], in[2], lv[1], lv[2])
        IN  /\ lv[1] = None =>
                  \A p \in DOMAIN o.ledger.positions :
                      StopLossOf(o.ledger, p) = StopLossOf(Ledger, p)
            /\ lv[2] = None =>
                  \A p \in DOMAIN o.ledger.positions :
                      TakeProfitOf(o.ledger, p) = TakeProfitOf(Ledger, p)
            /\ (o.result = "ok" /\ lv[1] # None) =>
                  StopLossOf(o.ledger, o.position) = Some(market[pair] * lv[1][1])
            /\ (o.result = "ok" /\ lv[2] # None) =>
                  TakeProfitOf(o.ledger, o.position) = Some(market[pair] * lv[2][1])

\* C40 witness: a position holds levels set earlier and has been adjusted in
\* this cycle; a further buy with a new stop loss and no take profit replaces
\* the one and keeps the other.
C40_Witness ==
    \E p \in open_positions :
        LET pair == positions[p].pair
            o == adjust_position_outcome(Ledger, AllSamples, pair, 1, 50, Some(90), None)
        IN  /\ Len(positions[p].trades) >= 2
            /\ trades[positions[p].trades[Len(positions[p].trades)]].opened_at = timestamp
            /\ positions[p].stop_loss = Some(market[pair] * 50)
            /\ positions[p].take_profit = Some(market[pair] * 150)
            /\ o.result = "ok"
            /\ o.ledger.positions[p].stop_loss = Some(market[pair] * 90)
            /\ o.ledger.positions[p].take_profit = positions[p].take_profit


====
